---------------------------- MODULE Spec2Model ----------------------------
(***************************************************************************)
(* A model of ob-scraper: the atomic file writer, the consent handshake    *)
(* (gocardless connect), the sync run with its per-account ingestion       *)
(* (gocardless sync), and the date arithmetic both depend on.              *)
(*                                                                         *)
(* Each component has its own specification (SpecWrite, SpecConnect, ...). *)
(* The variables of the components a specification does not exercise stay  *)
(* at their idle values.                                                   *)
(***************************************************************************)
EXTENDS Integers, Sequences, FiniteSets, TLC

VARIABLES
    \* ---- the atomic writer (files.rs, src/sync.rs) ----
    fs,         \* destination path -> content, or Absent
    temps,      \* temporary file name -> content, or Absent
    wpc,        \* position of the writing process
    wjob,       \* the write in progress: variant, path, version of the data
    wtmp,       \* name of the temporary file of the write in progress, 0 if none
    wbuf,       \* chunks held in the BufWriter, not yet in the temporary file
    wnext,      \* index of the next chunk the serializer produces
    wprev,      \* content of the destination when the write was called
    wres,       \* result of the last write: "none", "ok", "err"
    wcount,     \* writes started so far
    wcrashes,   \* process crashes and power losses so far
    wstored,    \* chunks of each file's data that have reached storage
    \* ---- the consent handshake (connect.rs) ----
    cpc,        \* position of Cmd::run
    cresult,    \* result of Cmd::run: "none", "ok", "err"
    cfail,      \* the step whose failure ended Cmd::run, "none" if none
    cprovider,  \* the provider name given on the command line
    listener,   \* the callback listener: "closed", "bound", "accepting", "draining", "stopped"
    cnx,        \* the CancellationToken: TRUE once cancelled
    reqs,       \* callback request -> its state
    remote,     \* status code of the requisition on the provider's side
    linkState,  \* content of the provider's state file
    chist,      \* what has happened in this run, for the properties
    \* ---- the sync window (sync.rs, Cmd::run lines 92-97) ----
    win,        \* the computation of the window: its inputs and its results
    \* ---- the sync run (sync.rs, Cmd::run and list_account) ----
    sin,        \* what the run is given: provider name, accounts granted, today
    spc,        \* position of Cmd::run / list_account
    sacct,      \* the account being ingested: index, details, by_month, months to write
    sfiles,     \* the output tree: path -> lines
    slog,       \* the requests issued and the files written, in order
    sres,       \* result of the run, its failure, the requisition and window it used
    \* ---- a Transaction through serde (transactions.rs) ----
    serde,      \* the JSON read, the Transaction, the JSON written, the Transaction read back
    \* ---- the sort key of a Transaction (transactions.rs, sync.rs) ----
    stamp,      \* a Transaction and its best-effort timestamp
    order,      \* three tagged transactions and how the comparator orders them
    \* ---- the monthly windows of the second provider's sync (src/sync.rs) ----
    cal         \* a date range and the windows months() yields for it

wvars == <<fs, temps, wpc, wjob, wtmp, wbuf, wnext, wprev, wres, wcount, wcrashes,
          wstored>>

cvars == <<cpc, cresult, cfail, cprovider, listener, cnx, reqs, remote, linkState, chist>>

\* The handshake without the state file, which the sync run reads.
crun == <<cpc, cresult, cfail, cprovider, listener, cnx, reqs, remote, chist>>

svars == <<sin, spc, sacct, sfiles, slog, sres>>

jvars == <<serde>>

tvars == <<stamp, order, cal>>

vars == <<wvars, cvars, win, svars, jvars, tvars>>

-----------------------------------------------------------------------------
(* Bounds of the model.                                                    *)

NChunks == 2        \* pieces the serializer emits for one content
MaxVersions == 2    \* distinct contents a caller may ask to write
MaxWrites == 2      \* writes started in one behaviour
MaxCrashes == 1     \* process crashes in one behaviour
MaxRequests == 2    \* callback requests the listener receives in one handshake
EndDateSpan == 430  \* days after FirstEndDate the run's current date ranges over
MaxHistoryDays == 95   \* largest configured history_days
MaxAccounts == 2    \* accounts a requisition grants
MaxTx == 2          \* transactions in one response, booked and pending together
FromDateSpan == 45  \* days after 2024-01-15 that from_date ranges over
ToDateBefore == 35  \* days before from_date that to_date may lie
ToDateAfter == 100  \* days after from_date that to_date may lie
MaxSortTx == 4      \* transactions in one response of undated transactions

-----------------------------------------------------------------------------
(* The atomic writer.                                                      *)

\* A file is absent, or exists with the chunks written to it so far.
Absent == [exists |-> FALSE, data |-> <<>>]

File(c) == [exists |-> TRUE, data |-> c]

Paths == {"p1", "p2"}

TempNames == 1..(MaxCrashes + 1)

\* The complete serialized content of version v, as the chunks the serializer
\* emits in order.
Chunks(v) == [i \in 1..NChunks |-> <<v, i>>]

FullContent(v) == File(Chunks(v))

Complete(c) == c = Absent \/ \E v \in 1..MaxVersions : c = FullContent(v)

\* What has reached storage when nothing is being written: all the data of
\* every destination, and no temporary file.
Stored(files) == [dest |-> [p \in Paths |-> Len(files[p].data)],
                  temp |-> [t \in TempNames |-> 0]]

NoJob == [variant |-> "none", path |-> "none", ver |-> 0]

WIdle ==
    /\ fs = [p \in Paths |-> Absent]
    /\ temps = [t \in TempNames |-> Absent]
    /\ wpc = "idle"
    /\ wjob = NoJob
    /\ wtmp = 0
    /\ wbuf = <<>>
    /\ wnext = 1
    /\ wprev = Absent
    /\ wres = "none"
    /\ wcount = 0
    /\ wcrashes = 0
    /\ wstored = Stored(fs)

\* Before the first write a destination is absent or holds a complete
\* content written earlier.
WInit ==
    /\ fs \in [Paths -> {Absent, FullContent(1)}]
    /\ temps = [t \in TempNames |-> Absent]
    /\ wpc = "idle"
    /\ wjob = NoJob
    /\ wtmp = 0
    /\ wbuf = <<>>
    /\ wnext = 1
    /\ wprev = Absent
    /\ wres = "none"
    /\ wcount = 0
    /\ wcrashes = 0
    /\ wstored = Stored(fs)

\* The caller invokes the writer on a path with the data to store.
\* "files": gocardless/src/files.rs write_file_atomically (BufWriter over the
\* temporary file); "tl": src/sync.rs write_atomically (unbuffered).
WStart ==
    /\ wpc \in {"idle", "returned"}
    /\ wcount < MaxWrites
    /\ \E variant \in {"files", "tl"}, path \in Paths, ver \in 1..MaxVersions :
        wjob' = [variant |-> variant, path |-> path, ver |-> ver]
    /\ wprev' = fs[wjob'.path]
    /\ wpc' = "mkdir"
    /\ wres' = "none"
    /\ wcount' = wcount + 1
    /\ wtmp' = 0
    /\ wbuf' = <<>>
    /\ wnext' = 1
    /\ UNCHANGED <<fs, temps, wcrashes, wstored>>

\* The error return with the temporary file kept, as into_temp_path().keep()
\* would leave it.
WFail_KeepTemp ==
    /\ wpc' = "returned"
    /\ wres' = "err"
    /\ wtmp' = 0
    /\ wbuf' = <<>>
    /\ UNCHANGED <<fs, temps, wjob, wnext, wprev, wcount, wcrashes, wstored>>

\* The error return of any step: the NamedTempFile (and the BufWriter that
\* owns it) is dropped, which removes the temporary file.
WFail ==
    /\ wpc' = "returned"
    /\ wres' = "err"
    /\ temps' = IF wtmp = 0 THEN temps ELSE [temps EXCEPT ![wtmp] = Absent]
    /\ wtmp' = 0
    /\ wbuf' = <<>>
    /\ wstored' = IF wtmp = 0 THEN wstored ELSE [wstored EXCEPT !.temp[wtmp] = 0]
    /\ UNCHANGED <<fs, wjob, wnext, wprev, wcount, wcrashes>>

\* create_dir_all(parent)
WMkdir ==
    /\ wpc = "mkdir"
    /\ \/ /\ wpc' = "mktemp"
          /\ UNCHANGED <<fs, temps, wjob, wtmp, wbuf, wnext, wprev, wres, wcount, wcrashes, wstored>>
       \/ WFail

\* tempfile_in(parent) / NamedTempFile::new_in(dir): a fresh, empty file
\* beside the destination.
WMktemp ==
    /\ wpc = "mktemp"
    /\ \/ /\ \E t \in TempNames :
                /\ temps[t] = Absent
                /\ \A u \in TempNames : temps[u] = Absent => t <= u
                /\ wtmp' = t
                /\ temps' = [temps EXCEPT ![t] = File(<<>>)]
          /\ wpc' = "write"
          /\ UNCHANGED <<fs, wjob, wbuf, wnext, wprev, wres, wcount, wcrashes, wstored>>
       \/ WFail

\* The destination overwritten in place: the non-atomic write the temporary
\* file exists to avoid.
WSerialize_InPlace ==
    /\ wpc = "write"
    /\ wnext <= NChunks
    /\ fs' = [fs EXCEPT ![wjob.path] =
                 IF wnext = 1 THEN File(<<Chunks(wjob.ver)[1]>>)
                 ELSE File(Append(@.data, Chunks(wjob.ver)[wnext]))]
    /\ temps' = [temps EXCEPT ![wtmp].data = Append(@, Chunks(wjob.ver)[wnext])]
    /\ wnext' = wnext + 1
    /\ UNCHANGED <<wpc, wjob, wtmp, wbuf, wprev, wres, wcount, wcrashes, wstored>>

\* The serializer emits the next chunk: into the BufWriter (files.rs), or
\* straight into the temporary file (src/sync.rs).
WSerialize ==
    /\ wpc = "write"
    /\ wnext <= NChunks
    /\ \/ /\ IF wjob.variant = "files"
             THEN /\ wbuf' = Append(wbuf, Chunks(wjob.ver)[wnext])
                  /\ UNCHANGED temps
             ELSE /\ temps' = [temps EXCEPT ![wtmp].data =
                                  Append(@, Chunks(wjob.ver)[wnext])]
                  /\ UNCHANGED wbuf
          /\ wnext' = wnext + 1
          /\ UNCHANGED <<fs, wpc, wjob, wtmp, wprev, wres, wcount, wcrashes, wstored>>
       \/ WFail

\* The BufWriter's buffer fills up while the serializer is writing and is
\* written out to the temporary file.
WSpill ==
    /\ wpc = "write"
    /\ wbuf # <<>>
    /\ \/ /\ temps' = [temps EXCEPT ![wtmp].data = @ \o wbuf]
          /\ wbuf' = <<>>
          /\ UNCHANGED <<fs, wpc, wjob, wtmp, wnext, wprev, wres, wcount, wcrashes, wstored>>
       \/ WFail

\* The serializer returns Ok.
WWritten ==
    /\ wpc = "write"
    /\ wnext = NChunks + 1
    /\ wpc' = "flush"
    /\ UNCHANGED <<fs, temps, wjob, wtmp, wbuf, wnext, wprev, wres, wcount, wcrashes, wstored>>

\* f.flush(): what the BufWriter still holds goes to the temporary file.
WFlush ==
    /\ wpc = "flush"
    /\ \/ /\ temps' = [temps EXCEPT ![wtmp].data = @ \o wbuf]
          /\ wbuf' = <<>>
          /\ wpc' = "persist"
          /\ UNCHANGED <<fs, wjob, wtmp, wnext, wprev, wres, wcount, wcrashes, wstored>>
       \/ WFail

\* tmpf.persist(path): rename(2) of the temporary file over the destination.
WPersist ==
    /\ wpc = "persist"
    /\ \/ /\ fs' = [fs EXCEPT ![wjob.path] = temps[wtmp]]
          /\ temps' = [temps EXCEPT ![wtmp] = Absent]
          /\ wtmp' = 0
          /\ wpc' = "returned"
          /\ wres' = "ok"
          /\ wstored' = [wstored EXCEPT !.dest[wjob.path] = wstored.temp[wtmp],
                                        !.temp[wtmp] = 0]
          /\ UNCHANGED <<wjob, wbuf, wnext, wprev, wcount, wcrashes>>
       \/ WFail

\* The process is killed in the middle of a write: what is in memory is
\* lost, no destructor runs, the file system stays as it is.
WCrash ==
    /\ wpc \in {"mkdir", "mktemp", "write", "flush", "persist"}
    /\ wcrashes < MaxCrashes
    /\ wpc' = "crashed"
    /\ wbuf' = <<>>
    /\ wcrashes' = wcrashes + 1
    /\ UNCHANGED <<fs, temps, wjob, wtmp, wnext, wprev, wres, wcount, wstored>>

\* The program is run again after a crash.
WRestart ==
    /\ wpc = "crashed"
    /\ wpc' = "idle"
    /\ wtmp' = 0
    /\ wnext' = 1
    /\ UNCHANGED <<fs, temps, wjob, wbuf, wprev, wres, wcount, wcrashes, wstored>>

\* The kernel writes back one more chunk of a file's data.  Neither writer
\* asks for it: there is no sync_all between the flush and the persist.
WWriteback ==
    /\ wpc # "crashed"
    /\ \/ \E p \in Paths :
             /\ wstored.dest[p] < Len(fs[p].data)
             /\ wstored' = [wstored EXCEPT !.dest[p] = @ + 1]
       \/ \E t \in TempNames :
             /\ wstored.temp[t] < Len(temps[t].data)
             /\ wstored' = [wstored EXCEPT !.temp[t] = @ + 1]
    /\ UNCHANGED <<fs, temps, wpc, wjob, wtmp, wbuf, wnext, wprev, wres, wcount, wcrashes>>

\* The machine loses power: the process is gone, and of every file the data
\* that had not reached storage.  The names survive.
WPowerLoss ==
    LET OnStorage(file, n) == IF file.exists THEN File(SubSeq(file.data, 1, n)) ELSE Absent IN
    /\ wpc # "crashed"
    /\ wcrashes < MaxCrashes
    /\ wpc' = "crashed"
    /\ wbuf' = <<>>
    /\ wcrashes' = wcrashes + 1
    /\ fs' = [p \in Paths |-> OnStorage(fs[p], wstored.dest[p])]
    /\ temps' = [t \in TempNames |-> OnStorage(temps[t], wstored.temp[t])]
    /\ UNCHANGED <<wjob, wtmp, wnext, wprev, wres, wcount, wstored>>

-----------------------------------------------------------------------------
(* The consent handshake: connect.rs, Cmd::run and handle_redirect.        *)

Requests == 1..MaxRequests

\* The status codes the provider can report. "XX" stands for any string that
\* is not one of the eight renamed variants of RequisitionStatus.
StatusCodes == {"CR", "GC", "UA", "RJ", "SA", "GA", "LN", "EX", "XX"}

\* serde's derived Deserialize for RequisitionStatus: one variant per renamed
\* code, and an error for every other string.
RequisitionStatus(code) ==
    CASE code = "CR" -> "Created"
      [] code = "GC" -> "GivingConsent"
      [] code = "UA" -> "UndergoingAuthentication"
      [] code = "RJ" -> "Rejected"
      [] code = "SA" -> "SelectingAccounts"
      [] code = "GA" -> "GrantingAccess"
      [] code = "LN" -> "Linked"
      [] code = "EX" -> "Expired"
      [] OTHER -> "DeserializeError"

\* The check of the requisition's status left out.
is_linked_Any(status) == TRUE

\* Requisition::is_linked
is_linked(status) == status = "Linked"

\* The id of the requisition the POST creates, another requisition's id, and
\* a `ref` that is no UUID.
expected_requisition_id == "R1"
ForeignId == "R0"
MalformedRef == "not-a-uuid"

NoState == "no-state"

KnownProviders == {"bank"}
ProviderNames == {"bank", "nosuch"}

NoRequest == [pc |-> "none", ref |-> "none", issued |-> FALSE, body |-> "none",
              got |-> "none", link |-> "none", resp |-> "none"]

CHist0 == [resumed |-> 0, sawLinked |-> FALSE, cancellers |-> {},
           finalIssued |-> FALSE, persisted |-> FALSE, everServed |-> {}]

\* No handshake is running.
CRest ==
    /\ cpc = "idle"
    /\ cresult = "none"
    /\ cfail = "none"
    /\ cprovider = "bank"
    /\ listener = "closed"
    /\ cnx = FALSE
    /\ reqs = [r \in Requests |-> NoRequest]
    /\ remote = "none"
    /\ chist = CHist0

CIdle == CRest /\ linkState = NoState

CInit ==
    /\ cpc = "start"
    /\ cresult = "none"
    /\ cfail = "none"
    /\ cprovider \in ProviderNames
    /\ listener = "closed"
    /\ cnx = FALSE
    /\ reqs = [r \in Requests |-> NoRequest]
    /\ remote = "none"
    /\ linkState \in {NoState, ForeignId}
    /\ chist = CHist0

\* `?` in Cmd::run: the run ends with the error, the listener is dropped.
RunAbort(step) ==
    /\ cpc' = "done"
    /\ cresult' = "err"
    /\ cfail' = step
    /\ listener' = IF listener = "closed" THEN "closed" ELSE "stopped"

\* config.load(), load_token(), and the lookup of the provider by name.
RunLoad ==
    /\ cpc = "start"
    /\ \/ /\ cprovider \in KnownProviders
          /\ cpc' = "bind"
          /\ UNCHANGED <<cresult, cfail, listener>>
       \/ /\ cprovider \notin KnownProviders
          /\ RunAbort("provider")
       \/ RunAbort("config")
    /\ UNCHANGED <<cprovider, cnx, reqs, remote, linkState, chist>>

\* CancellationToken::new(), TcpListener::bind, the base URL.
RunBind ==
    /\ cpc = "bind"
    /\ \/ /\ cpc' = "post"
          /\ listener' = "bound"
          /\ UNCHANGED <<cresult, cfail>>
       \/ RunAbort("bind")
    /\ UNCHANGED <<cprovider, cnx, reqs, remote, linkState, chist>>

\* The state written from the requisition the POST returned, before the
\* listener serves.
RunPost_WriteFirst ==
    /\ cpc = "post"
    /\ \/ /\ remote' = "CR"
          /\ cpc' = "serve"
          /\ listener' = "accepting"
          /\ linkState' = expected_requisition_id
          /\ chist' = [chist EXCEPT !.persisted = TRUE]
          /\ UNCHANGED <<cresult, cfail>>
       \/ /\ RunAbort("post")
          /\ UNCHANGED <<remote, linkState, chist>>
    /\ UNCHANGED <<cprovider, cnx, reqs>>

\* client.post::<Requisition>("/api/v2/requisitions/"), then the router and
\* the auth URL; axum::serve starts accepting.
RunPost ==
    /\ cpc = "post"
    /\ \/ /\ remote' = "CR"
          /\ cpc' = "serve"
          /\ listener' = "accepting"
          /\ UNCHANGED <<cresult, cfail>>
       \/ /\ RunAbort("post")
          /\ UNCHANGED remote
    /\ UNCHANGED <<cprovider, cnx, reqs, linkState, chist>>

\* The provider moves the requisition to another status: the end user acts
\* in the browser, or the agreement expires.
ProviderChanges ==
    /\ remote # "none"
    /\ cpc # "done"
    /\ \E code \in StatusCodes \ {remote} : remote' = code
    /\ UNCHANGED <<cpc, cresult, cfail, cprovider, listener, cnx, reqs, linkState, chist>>

\* A browser sends GET /?ref=... and the listener accepts it.
Arrive(r) ==
    /\ listener = "accepting"
    /\ reqs[r].pc = "none"
    /\ \A q \in Requests : q < r => reqs[q].pc # "none"
    /\ \E ref \in {expected_requisition_id, ForeignId, MalformedRef} :
          reqs' = [reqs EXCEPT ![r] = [NoRequest EXCEPT !.pc = "arrived", !.ref = ref]]
    /\ chist' = [chist EXCEPT !.everServed = @ \cup {r}]
    /\ UNCHANGED <<cpc, cresult, cfail, cprovider, listener, cnx, remote, linkState>>

\* handle_redirect without the comparison against expected_requisition_id:
\* every well-formed ref is looked up at the provider.
HandleRedirectStart_NoCheck(r) ==
    /\ reqs[r].pc = "arrived"
    /\ reqs' = [reqs EXCEPT ![r] =
         IF reqs[r].ref = MalformedRef
         THEN [@ EXCEPT !.pc = "done", !.resp = "400 Bad Request"]
         ELSE [@ EXCEPT !.pc = "fetching", !.issued = TRUE]]
    /\ UNCHANGED <<cpc, cresult, cfail, cprovider, listener, cnx, remote, linkState, chist>>

\* handle_redirect up to its await: the Query extractor, the comparison of
\* the ref with expected_requisition_id, and the GET of the requisition.
HandleRedirectStart(r) ==
    /\ reqs[r].pc = "arrived"
    /\ reqs' = [reqs EXCEPT ![r] =
         IF reqs[r].ref = MalformedRef
         THEN [@ EXCEPT !.pc = "done", !.resp = "400 Bad Request"]
         ELSE IF reqs[r].ref # expected_requisition_id
         THEN [@ EXCEPT !.pc = "done", !.resp = "404 Not Found"]
         ELSE [@ EXCEPT !.pc = "fetching", !.issued = TRUE]]
    /\ UNCHANGED <<cpc, cresult, cfail, cprovider, listener, cnx, remote, linkState, chist>>

InProgress == {"Created", "GivingConsent", "UndergoingAuthentication",
               "SelectingAccounts", "GrantingAccess"}

\* The match on requisition.status with Rejected and Expired treated as the
\* end of the handshake too.
Cancels_AnyTerminal(status) == status \in {"Linked", "Rejected", "Expired"}

\* The match on requisition.status with Expired sharing the Linked arm.
Cancels_Expired(status) == status \in {"Linked", "Expired"}

\* The Linked arm of the match without its call of state.cnx.cancel().
Cancels_Never(status) == FALSE

\* The arm of the match on requisition.status that calls state.cnx.cancel().
Cancels(status) == status = "Linked"

\* The page arm of the match taken for Created alone, the other four
\* in-progress statuses falling through to the plain answer.
Respond_CreatedOnly(status, linkOk) ==
    IF status = "Created"
    THEN IF linkOk THEN "200 page" ELSE "500 Internal Server Error"
    ELSE "200 Ok"

\* The response of handle_redirect for a fetched requisition; linkOk: the
\* requisition's link parses as a URI (the ? on requisition.link.parse()).
Respond(status, linkOk) ==
    IF status \in InProgress
    THEN IF linkOk THEN "200 page" ELSE "500 Internal Server Error"
    ELSE "200 Ok"

\* handle_redirect from the GET's completion to its response.
HandleRedirectResume(r) ==
    /\ reqs[r].pc = "fetching"
    /\ \/ \* the request failed: WebError
          /\ reqs' = [reqs EXCEPT ![r] = [@ EXCEPT !.pc = "done", !.got = "error",
                                              !.resp = "500 Internal Server Error"]]
          /\ UNCHANGED <<cnx, chist>>
       \/ \* the body arrived and did not deserialize: WebError
          /\ RequisitionStatus(remote) = "DeserializeError"
          /\ reqs' = [reqs EXCEPT ![r] = [@ EXCEPT !.pc = "done", !.body = remote,
                                              !.got = "error",
                                              !.resp = "500 Internal Server Error"]]
          /\ UNCHANGED <<cnx, chist>>
       \/ /\ RequisitionStatus(remote) # "DeserializeError"
          /\ \E linkOk \in BOOLEAN :
                LET status == RequisitionStatus(remote) IN
                /\ reqs' = [reqs EXCEPT ![r] = [@ EXCEPT !.pc = "done", !.body = remote,
                                                    !.got = status,
                                                    !.link = IF linkOk THEN "uri" ELSE "malformed",
                                                    !.resp = Respond(status, linkOk)]]
                /\ cnx' = (cnx \/ Cancels(status))
                /\ chist' = [chist EXCEPT
                       !.sawLinked = @ \/ is_linked(status),
                       !.cancellers = IF Cancels(status) THEN @ \cup {r} ELSE @]
    /\ UNCHANGED <<cpc, cresult, cfail, cprovider, listener, remote, linkState>>

InFlight(r) == reqs[r].pc \in {"arrived", "fetching"}

\* The server built without with_graceful_shutdown: the cancelled token
\* changes nothing and the listener goes on accepting.
GracefulShutdown_Ignored ==
    /\ listener = "accepting"
    /\ cnx
    /\ UNCHANGED <<cpc, cresult, cfail, cprovider, listener, cnx, reqs, remote, linkState, chist>>

\* with_graceful_shutdown: the token's cancelled_owned() future resolves and
\* the listener stops accepting.
GracefulShutdown ==
    /\ listener = "accepting"
    /\ cnx
    /\ listener' = "draining"
    /\ UNCHANGED <<cpc, cresult, cfail, cprovider, cnx, reqs, remote, linkState, chist>>

\* The server returning as soon as it has seen the signal, whatever is
\* still being served.
ServeReturns_Abrupt ==
    /\ cpc = "serve"
    /\ listener = "draining"
    /\ listener' = "stopped"
    /\ cpc' = "refetch"
    /\ chist' = [chist EXCEPT !.resumed = @ + 1, !.finalIssued = TRUE]
    /\ UNCHANGED <<cresult, cfail, cprovider, cnx, reqs, remote, linkState>>

\* axum::serve(...).await returns once no request is being served, and
\* Cmd::run issues the final GET of the requisition.
ServeReturns ==
    /\ cpc = "serve"
    /\ listener = "draining"
    /\ \A r \in Requests : ~InFlight(r)
    /\ listener' = "stopped"
    /\ cpc' = "refetch"
    /\ chist' = [chist EXCEPT !.resumed = @ + 1, !.finalIssued = TRUE]
    /\ UNCHANGED <<cresult, cfail, cprovider, cnx, reqs, remote, linkState>>

\* The failure of the final GET ignored: the state is written from the id
\* the run already holds.
RunRefetch_IgnoreFailure ==
    /\ cpc = "refetch"
    /\ \/ /\ RequisitionStatus(remote) # "DeserializeError"
          /\ cpc' = "write_state"
          /\ UNCHANGED <<cresult, cfail, listener>>
       \/ /\ cpc' = "write_state"
          /\ cfail' = "refetch"
          /\ UNCHANGED <<cresult, listener>>
    /\ UNCHANGED <<cprovider, cnx, reqs, remote, linkState, chist>>

\* The final GET completes: the requisition, or an error.
RunRefetch ==
    /\ cpc = "refetch"
    /\ \/ /\ RequisitionStatus(remote) # "DeserializeError"
          /\ cpc' = "write_state"
          /\ UNCHANGED <<cresult, cfail, listener>>
       \/ RunAbort("refetch")
    /\ UNCHANGED <<cprovider, cnx, reqs, remote, linkState, chist>>

\* ProviderState::from_requisition
from_requisition(id) == id

\* provider_config.write_state(&state): the atomic writer replaces the state
\* file, or fails and leaves it as it was.
RunWriteState ==
    /\ cpc = "write_state"
    /\ \/ /\ linkState' = from_requisition(expected_requisition_id)
          /\ chist' = [chist EXCEPT !.persisted = TRUE]
          /\ cpc' = "done"
          /\ cresult' = "ok"
          /\ UNCHANGED <<cfail, listener>>
       \/ /\ RunAbort("write_state")
          /\ UNCHANGED <<linkState, chist>>
    /\ UNCHANGED <<cprovider, cnx, reqs, remote>>

-----------------------------------------------------------------------------
(* Calendar dates: chrono's NaiveDate, as the sync code uses it.           *)

None == [some |-> FALSE]

Some(x) == [some |-> TRUE, v |-> x]

Date(y, m, d) == [year |-> y, month |-> m, day |-> d]

DaysInMonth(y, m) ==
    LET IsLeapYear == (y % 4 = 0 /\ y % 100 # 0) \/ y % 400 = 0 IN
    IF m = 2 THEN (IF IsLeapYear THEN 29 ELSE 28)
    ELSE IF m \in {4, 6, 9, 11} THEN 30 ELSE 31

\* The number of the day in the proleptic Gregorian calendar, 1970-01-01
\* being day 0.
DayNumber(date) ==
    LET y == IF date.month <= 2 THEN date.year - 1 ELSE date.year
        era == y \div 400
        yoe == y - era * 400
        mp == IF date.month > 2 THEN date.month - 3 ELSE date.month + 9
        doy == (153 * mp + 2) \div 5 + date.day - 1
        doe == yoe * 365 + yoe \div 4 - yoe \div 100 + doy
    IN  era * 146097 + doe - 719468

\* The date of a day number.
DateOfDayNumber(n) ==
    LET z == n + 719468
        era == z \div 146097
        doe == z - era * 146097
        yoe == (doe - doe \div 1460 + doe \div 36524 - doe \div 146096) \div 365
        doy == doe - (365 * yoe + yoe \div 4 - yoe \div 100)
        mp == (5 * doy + 2) \div 153
        d == doy - (153 * mp + 2) \div 5 + 1
        m == IF mp < 10 THEN mp + 3 ELSE mp - 9
        y == yoe + era * 400
    IN  Date(IF m <= 2 THEN y + 1 ELSE y, m, d)

\* NaiveDate + Days, NaiveDate - Days
AddDays(date, n) == DateOfDayNumber(DayNumber(date) + n)

SubDays(date, n) == DateOfDayNumber(DayNumber(date) - n)

\* NaiveDate + Months: the same day of the month n months later, clamped to
\* the last day of that month.
AddMonths(date, n) ==
    LET k == date.year * 12 + (date.month - 1) + n
        y == k \div 12
        m == (k % 12) + 1
    IN  Date(y, m, IF date.day > DaysInMonth(y, m) THEN DaysInMonth(y, m) ELSE date.day)

\* Datelike::day0
day0(date) == date.day - 1

\* Datelike::with_day(1)
with_day1(date) == Date(date.year, date.month, 1)

-----------------------------------------------------------------------------
(* The sync window: sync.rs, Cmd::run, and config.rs, history_days.        *)

DefaultHistoryDays == 90

\* ProviderConfig::history_days
history_days(configured) == IF configured.some THEN configured.v ELSE DefaultHistoryDays

\* end_date - history_days + Days::new(1)
RawStart(end_date, configured) == AddDays(SubDays(end_date, history_days(configured)), 1)

\* The rounding that keeps the month of raw_start: the window then starts
\* before the configured history begins.
RoundStart_Backward(raw) == with_day1(raw)

\* if start_date.day() > 1 { start_date + Months::new(1), then back to the
\* first day of that month }
RoundStart(raw) ==
    IF raw.day > 1
    THEN LET next == AddMonths(raw, 1) IN SubDays(next, day0(next))
    ELSE raw

FirstEndDate == Date(2024, 1, 1)

WinIdle == win = [pc |-> "idle"]

WinInit ==
    \E e \in {AddDays(FirstEndDate, k) : k \in 0..EndDateSpan},
       h \in {None} \cup {Some(n) : n \in 0..MaxHistoryDays} :
        win = [pc |-> "input", end_date |-> e, history |-> h]

\* Cmd::run from Local::now() to the debug! of the range.
ComputeWindow ==
    /\ win.pc = "input"
    /\ LET raw == RawStart(win.end_date, win.history) IN
       win' = [pc |-> "computed", end_date |-> win.end_date, history |-> win.history,
               raw_start |-> raw, start_date |-> RoundStart(raw)]

-----------------------------------------------------------------------------
(* Transactions: transactions.rs, and TransactionWithStatus in sync.rs.    *)

\* A DateTime<Utc> is the number of hours since 1970-01-01T00:00Z.
DateTimeUtc(date, hour) == DayNumber(date) * 24 + hour

\* DateTime<Utc>::date_naive
date_naive(dt) == DateOfDayNumber(dt \div 24)

\* The last Sunday of March or of October; 1970-01-01 was a Thursday.
LastSunday(y, m) == CHOOSE d \in 25..31 : (DayNumber(Date(y, m, d)) + 4) % 7 = 0

\* dt.and_hms_opt(0, 0, 0).and_local_timezone(&*EUROPE_LONDON).single().to_utc()
\* Europe/London: British Summer Time runs from 01:00 UTC on the last Sunday
\* of March to 01:00 UTC on the last Sunday of October, so midnight local
\* time is in summer time on the days after the former up to the latter.
LondonMidnight(date) ==
    LET InSummerTime ==
            /\ DayNumber(date) > DayNumber(Date(date.year, 3, LastSunday(date.year, 3)))
            /\ DayNumber(date) <= DayNumber(Date(date.year, 10, LastSunday(date.year, 10)))
    IN  DayNumber(date) * 24 - (IF InSummerTime THEN 1 ELSE 0)

\* Option::or
Or(a, b) == IF a.some THEN a ELSE b

\* Option::map with date_naive
MapDateNaive(o) == IF o.some THEN Some(date_naive(o.v)) ELSE None

\* Option::map with the London midnight of a date
MapLondonMidnight(o) == IF o.some THEN Some(LondonMidnight(o.v)) ELSE None

\* The best-effort date with the value date taken first.
date_best_effort_ValueFirst(t) ==
    Or(Or(t.value_date, t.booking_date), MapDateNaive(t.booking_date_time))

\* Transaction::date_best_effort
date_best_effort(t) ==
    Or(Or(t.booking_date, MapDateNaive(t.booking_date_time)), t.value_date)

\* The booking date taken before the booking date-time.
timestamp_best_effort_DateFirst(t) ==
    Or(Or(Or(MapLondonMidnight(t.booking_date), t.booking_date_time),
          t.value_date_time),
       MapLondonMidnight(t.value_date))

\* Transaction::timestamp_best_effort
timestamp_best_effort(t) ==
    Or(Or(Or(t.booking_date_time, MapLondonMidnight(t.booking_date)),
          t.value_date_time),
       MapLondonMidnight(t.value_date))

\* TransactionWithStatus::Booked(t), ::Pending(t)
Booked(t) == [status |-> "booked", tx |-> t]

Pending(t) == [status |-> "pending", tx |-> t]

\* Ordering of integers, as std::cmp::Ordering: -1 Less, 0 Equal, 1 Greater.
CmpInt(a, b) == IF a < b THEN -1 ELSE IF a > b THEN 1 ELSE 0

\* str::cmp: lexicographic on the bytes, a proper prefix first.  A string is
\* the sequence of its bytes.
RECURSIVE CmpStr(_, _)
CmpStr(a, b) ==
    IF a = <<>> THEN (IF b = <<>> THEN 0 ELSE -1)
    ELSE IF b = <<>> THEN 1
    ELSE IF Head(a) # Head(b) THEN CmpInt(Head(a), Head(b))
    ELSE CmpStr(Tail(a), Tail(b))

\* Option<&str>::cmp: None before every Some.
CmpOptStr(a, b) ==
    IF ~a.some THEN (IF b.some THEN -1 ELSE 0)
    ELSE IF ~b.some THEN 1
    ELSE CmpStr(a.v, b.v)

\* Ordering::then_with
ThenWith(c, d) == IF c # 0 THEN c ELSE d

\* The closure given to sort_by in list_account.
Compare(a, b) ==
    LET left == timestamp_best_effort(a.tx)
        right == timestamp_best_effort(b.tx)
        cmp == IF left.some /\ right.some THEN CmpInt(left.v, right.v) ELSE 0
    IN  ThenWith(ThenWith(cmp, CmpOptStr(a.tx.transaction_id, b.tx.transaction_id)),
                 CmpOptStr(a.tx.internal_transaction_id, b.tx.internal_transaction_id))

\* An insertion that moves x left past the elements it is equal to as well.
RECURSIVE InsertTail_Unstable(_, _)
InsertTail_Unstable(sorted, x) ==
    IF sorted = <<>> THEN <<x>>
    ELSE LET last == sorted[Len(sorted)] IN
         IF Compare(x, last) # 1
         THEN Append(InsertTail_Unstable(SubSeq(sorted, 1, Len(sorted) - 1), x), last)
         ELSE Append(sorted, x)

\* One insertion of the stable sort of a short slice: x moves left past
\* every element it is less than.
RECURSIVE InsertTail(_, _)
InsertTail(sorted, x) ==
    IF sorted = <<>> THEN <<x>>
    ELSE LET last == sorted[Len(sorted)] IN
         IF Compare(x, last) = -1
         THEN Append(InsertTail(SubSeq(sorted, 1, Len(sorted) - 1), x), last)
         ELSE Append(sorted, x)

\* slice::sort_by with Compare, for the short slices of the model: the
\* insertion sort the standard library runs on slices of at most 20 elements.
RECURSIVE sort_by(_)
sort_by(v) ==
    IF v = <<>> THEN <<>>
    ELSE InsertTail(sort_by(SubSeq(v, 1, Len(v) - 1)), v[Len(v)])

\* month.format("%Y-%m.jsonl"), or "undated.json" for the None key
Pad2(n) == IF n < 10 THEN "0" \o ToString(n) ELSE ToString(n)

\* The file named after the year alone.
FileName_YearOnly(month) ==
    IF month.some
    THEN ToString(month.v.year) \o ".jsonl"
    ELSE "undated.json"

FileName(month) ==
    IF month.some
    THEN ToString(month.v.year) \o "-" \o Pad2(month.v.month) \o ".jsonl"
    ELSE "undated.json"

\* date.map(|d| d.with_day(1))
start_of_month(t) ==
    LET date == date_best_effort(t) IN
    IF date.some THEN Some(with_day1(date.v)) ELSE None

\* The second loop pushing TransactionWithStatus::Booked too.
Tagged_AllBooked(booked, pending) ==
    [i \in 1..(Len(booked) + Len(pending)) |->
        IF i <= Len(booked) THEN Booked(booked[i]) ELSE Booked(pending[i - Len(booked)])]

\* The two loops that fill by_month: the booked transactions in the order
\* of the response, then the pending ones, each pushed onto the vector of
\* its month.
Tagged(booked, pending) ==
    [i \in 1..(Len(booked) + Len(pending)) |->
        IF i <= Len(booked) THEN Booked(booked[i]) ELSE Pending(pending[i - Len(booked)])]

RECURSIVE SelectMonth(_, _)
SelectMonth(tagged, month) ==
    IF tagged = <<>> THEN <<>>
    ELSE IF start_of_month(Head(tagged).tx) = month
         THEN <<Head(tagged)>> \o SelectMonth(Tail(tagged), month)
         ELSE SelectMonth(Tail(tagged), month)

by_month_of(booked, pending) ==
    LET tagged == Tagged(booked, pending)
        months == {start_of_month(tagged[i].tx) : i \in 1..Len(tagged)}
    IN  [month \in months |-> SelectMonth(tagged, month)]

-----------------------------------------------------------------------------
(* A Transaction through serde_json: transactions.rs, struct Transaction.  *)

\* A JSON object is a function from its keys to the text of their values.
TypedKeys == {"bookingDate", "bookingDateTime", "valueDate", "valueDateTime",
              "transactionId", "internalTransactionId"}

\* serde_json::Value, for the values the model draws.
\* null, the number 1, the strings "1" and "null".
Values == {[t |-> "null", s |-> "", n |-> 0], [t |-> "number", s |-> "", n |-> 1],
           [t |-> "string", s |-> "1", n |-> 0], [t |-> "string", s |-> "null", n |-> 0]}

\* Value's Serialize
ValueToText(v) ==
    CASE v.t = "null" -> "null"
      [] v.t = "number" -> ToString(v.n)
      [] OTHER -> "\"" \o v.s \o "\""

\* Value's Deserialize, on the texts ValueToText writes
TextToValue(text) == CHOOSE v \in Values : ValueToText(v) = text

\* NaiveDate's Serialize: "YYYY-MM-DD"
FormatDate(d) ==
    "\"" \o ToString(d.year) \o "-" \o Pad2(d.month) \o "-" \o Pad2(d.day) \o "\""

\* The dates and instants the texts of the model can name.
KnownDates == {Date(2024, 3, 15)}

KnownInstants == {DateTimeUtc(Date(2024, 3, 31), 23)}

\* An instant written with a UTC offset of `off` hours: RFC 3339.
FormatDateTimeAt(dt, off) ==
    LET local == dt + off
        d == DateOfDayNumber(local \div 24)
    IN  "\"" \o ToString(d.year) \o "-" \o Pad2(d.month) \o "-" \o Pad2(d.day)
             \o "T" \o Pad2(local % 24) \o ":00:00"
             \o (IF off = 0 THEN "Z" ELSE "+" \o Pad2(off) \o ":00") \o "\""

Err == [ok |-> FALSE]

Ok(x) == [ok |-> TRUE, v |-> x]

\* Option<NaiveDate>'s Deserialize: null is None, a date is Some, the rest fails.
ParseOptDate(text) ==
    IF text = "null" THEN Ok(None)
    ELSE IF \E d \in KnownDates : FormatDate(d) = text
    THEN Ok(Some(CHOOSE d \in KnownDates : FormatDate(d) = text))
    ELSE Err

\* Option<DateTime<Utc>>'s Deserialize: any offset is accepted and converted.
ParseOptDateTime(text) ==
    IF text = "null" THEN Ok(None)
    ELSE IF \E dt \in KnownInstants, off \in 0..1 : FormatDateTimeAt(dt, off) = text
    THEN Ok(Some(CHOOSE dt \in KnownInstants :
                    \E off \in 0..1 : FormatDateTimeAt(dt, off) = text))
    ELSE Err

\* Option<String>'s Deserialize. Ids are the sequences of their bytes; the
\* model reads the ids "a" and "b".
ParseOptString(text) ==
    CASE text = "null" -> Ok(None)
      [] text = "\"a\"" -> Ok(Some(<<97>>))
      [] text = "\"b\"" -> Ok(Some(<<98>>))
      [] OTHER -> Err

\* The derived Deserialize of Transaction: the six typed keys, and every
\* other key collected by #[serde(flatten)] into `other`.
Deserialize(obj) ==
    LET \* a field with #[serde(default)]: absent is None
        Field(key, Parse(_)) == IF key \in DOMAIN obj THEN Parse(obj[key]) ELSE Ok(None)
        bd == Field("bookingDate", ParseOptDate)
        bdt == Field("bookingDateTime", ParseOptDateTime)
        vd == Field("valueDate", ParseOptDate)
        vdt == Field("valueDateTime", ParseOptDateTime)
        id == Field("transactionId", ParseOptString)
        iid == Field("internalTransactionId", ParseOptString)
    IN  IF bd.ok /\ bdt.ok /\ vd.ok /\ vdt.ok /\ id.ok /\ iid.ok
        THEN Ok([tx |-> [booking_date |-> bd.v, booking_date_time |-> bdt.v,
                         value_date |-> vd.v, value_date_time |-> vdt.v,
                         transaction_id |-> id.v, internal_transaction_id |-> iid.v],
                 other |-> [k \in DOMAIN obj \ TypedKeys |-> TextToValue(obj[k])]])
        ELSE Err

\* The typed field a key is renamed from.
FieldOf(f, key) ==
    CASE key = "bookingDate" -> f.booking_date
      [] key = "bookingDateTime" -> f.booking_date_time
      [] key = "valueDate" -> f.value_date
      [] key = "valueDateTime" -> f.value_date_time
      [] key = "transactionId" -> f.transaction_id
      [] OTHER -> f.internal_transaction_id

\* The Serialize of a typed field: DateTime<Utc> is always written with Z,
\* a String, for the ids "a" and "b", in quotes.
FormatField(f, key) ==
    CASE key \in {"bookingDate", "valueDate"} -> FormatDate(FieldOf(f, key).v)
      [] key \in {"bookingDateTime", "valueDateTime"} ->
            FormatDateTimeAt(FieldOf(f, key).v, 0)
      [] OTHER -> IF FieldOf(f, key).v = <<97>> THEN "\"a\"" ELSE "\"b\""

\* The typed fields alone: `other` is not written.
Serialize_TypedOnly(t) ==
    [k \in {key \in TypedKeys : FieldOf(t.tx, key).some} |-> FormatField(t.tx, k)]

\* The derived Serialize of Transaction: the typed fields that are Some
\* (skip_serializing_if), then the entries of `other`, flattened.  `other`
\* never holds a typed key: Deserialize leaves none in it.
Serialize(t) ==
    LET typed == {key \in TypedKeys : FieldOf(t.tx, key).some} IN
    [k \in typed \cup DOMAIN t.other |->
        IF k \in typed THEN FormatField(t.tx, k) ELSE ValueToText(t.other[k])]

NoObject == [k \in {} |-> ""]

JIdle == serde = [pc |-> "idle", input |-> NoObject, tx |-> Err, out |-> NoObject, back |-> Err]

\* A transaction object as the provider sends it: the keys whose text is
\* not empty.
JInit ==
    LET Object(texts) == [k \in {key \in DOMAIN texts : texts[key] # ""} |-> texts[k]] IN
    \E bd \in {"", "null", "\"2024-03-15\"", "\"15/03/2024\""},
       bdt \in {"", "\"2024-03-31T23:00:00Z\"", "\"2024-04-01T00:00:00+01:00\""},
       id \in {"", "\"a\""},
       amount \in {"", "null", "1", "\"1\""},
       name \in {"", "\"null\""} :
       serde = [pc |-> "received",
                input |-> Object([bookingDate |-> bd, bookingDateTime |-> bdt,
                                  transactionId |-> id, transactionAmount |-> amount,
                                  creditorName |-> name]),
                tx |-> Err, out |-> NoObject, back |-> Err]

\* serde_json reads the object into a Transaction.
JDeserialize ==
    /\ serde.pc = "received"
    /\ LET t == Deserialize(serde.input) IN
       serde' = [serde EXCEPT !.tx = t, !.pc = IF t.ok THEN "parsed" ELSE "rejected"]

\* serde_json writes the Transaction.
JSerialize ==
    /\ serde.pc = "parsed"
    /\ serde' = [serde EXCEPT !.out = Serialize(serde.tx.v), !.pc = "written"]

\* serde_json reads back what it wrote.
JReadBack ==
    /\ serde.pc = "written"
    /\ serde' = [serde EXCEPT !.back = Deserialize(serde.out), !.pc = "done"]

-----------------------------------------------------------------------------
(* The sync run: sync.rs, Cmd::run and list_account.                       *)

\* The status strings an account can carry. "BLOCKED" stands for any string
\* that is not one of the four renamed variants.
AccountStatusCodes == {"READY", "EXPIRED", "ERROR", "SUSPENDED", "BLOCKED"}

\* serde's derived Deserialize for AccountStatus, with its untagged Other.
AccountStatus(code) ==
    CASE code = "READY" -> "Ready"
      [] code = "EXPIRED" -> "Expired"
      [] code = "ERROR" -> "Error"
      [] code = "SUSPENDED" -> "Suspended"
      [] OTHER -> "Other"

\* The IBAN the provider reports for the i-th account: the first account's
\* is GB01, a later one's may repeat an earlier one's.
Ibans(i) == IF i = 1 THEN {"GB01"} ELSE {"GB01", "GB02"}

NoTx == [booking_date |-> None, booking_date_time |-> None, value_date |-> None,
         value_date_time |-> None, transaction_id |-> None,
         internal_transaction_id |-> None]

ValueDateTimes == {None, Some(DateTimeUtc(Date(2024, 4, 30), 12)),
                   Some(DateTimeUtc(Date(2024, 5, 1), 0))}

\* The transactions a response may hold: every combination of the three
\* fields a date is taken from, and those that carry a value date-time alone.
TxUniverse ==
    {[NoTx EXCEPT !.booking_date = bd, !.booking_date_time = bdt, !.value_date = vd] :
        bd \in {None, Some(Date(2024, 3, 15)), Some(Date(2024, 4, 1))},
        bdt \in {None, Some(DateTimeUtc(Date(2024, 3, 31), 23))},
        vd \in {None, Some(Date(2023, 12, 31))}}
    \cup {[NoTx EXCEPT !.value_date_time = vdt] : vdt \in ValueDateTimes}

SeqsOfLen(S, n) == [1..n -> S]

\* The few responses the runs over several accounts draw from.
FewResponses ==
    {[booked |-> <<>>, pending |-> <<>>],
     [booked |-> <<[NoTx EXCEPT !.booking_date = Some(Date(2024, 3, 15))]>>,
      pending |-> <<NoTx>>]}

\* The transactions of the responses whose lines all meet in one file: no
\* field a date is taken from, a value date-time or none, the id "a", "b"
\* or none.
SortUniverse ==
    {[NoTx EXCEPT !.value_date_time = vdt, !.transaction_id = id] :
        vdt \in ValueDateTimes, id \in {None, Some(<<97>>), Some(<<98>>)}}

-----------------------------------------------------------------------------
(* The sort key of a transaction, applied to transactions drawn one by     *)
(* one: transactions.rs, timestamp_best_effort; sync.rs, the comparator.   *)

TIdle ==
    /\ stamp = [pc |-> "idle", tx |-> NoTx, ts |-> None]
    /\ order = [pc |-> "idle", a |-> Booked(NoTx), b |-> Booked(NoTx), c |-> Booked(NoTx),
                ab |-> 0, bc |-> 0, ac |-> 0, sorted |-> <<>>, reversed |-> <<>>]
    /\ cal = [pc |-> "idle"]

\* The comparator asks for the timestamp of the transaction.
TimestampBestEffort ==
    /\ stamp.pc = "received"
    /\ stamp' = [stamp EXCEPT !.ts = timestamp_best_effort(stamp.tx), !.pc = "done"]
    /\ UNCHANGED <<order, cal>>

\* sort_by on a vector of three transactions, and on the same three as the
\* provider might have returned them instead; the comparator on each pair.
SortThree ==
    /\ order.pc = "received"
    /\ order' = [order EXCEPT
          !.pc = "done",
          !.ab = Compare(order.a, order.b),
          !.bc = Compare(order.b, order.c),
          !.ac = Compare(order.a, order.c),
          !.sorted = sort_by(<<order.a, order.b, order.c>>),
          !.reversed = sort_by(<<order.c, order.b, order.a>>)]
    /\ UNCHANGED <<stamp, cal>>

-----------------------------------------------------------------------------
(* The monthly windows of the second provider's sync: src/sync.rs, months. *)

\* The zip whose windows all end on the day before the next month starts.
months_NoMin(from_date, to_date) ==
    LET RECURSIVE zip(_)
        zip(month_start) ==
            LET next == AddDays(month_start,
                           CHOOSE n \in 1..31 :
                              /\ AddDays(month_start, n).day = 1
                              /\ \A k \in 1..(n - 1) : AddDays(month_start, k).day # 1)
            IN  IF DayNumber(month_start) <= DayNumber(to_date)
                THEN <<<<month_start, SubDays(next, 1)>>>> \o zip(next)
                ELSE <<>>
    IN  zip(with_day1(from_date))

\* months(from_date, to_date), the pairs it yields as a sequence.
\* month_starts are the days numbered 1 among iter_days from the first of
\* from_date's month; month_ends takes each later month start, steps one
\* day back and caps the day at to_date; the zip pairs the month starts
\* that are not after to_date with the month ends.
months(from_date, to_date) ==
    LET RECURSIVE zip(_)
        zip(month_start) ==
            LET next == AddDays(month_start,
                           CHOOSE n \in 1..31 :
                              /\ AddDays(month_start, n).day = 1
                              /\ \A k \in 1..(n - 1) : AddDays(month_start, k).day # 1)
                pred == SubDays(next, 1)
                month_end == IF DayNumber(pred) <= DayNumber(to_date) THEN pred ELSE to_date
            IN  IF DayNumber(month_start) <= DayNumber(to_date)
                THEN <<<<month_start, month_end>>>> \o zip(next)
                ELSE <<>>
    IN  zip(with_day1(from_date))

\* The loop of scrape_account_tx drawing the windows of its range.
Months ==
    /\ cal.pc = "received"
    /\ cal' = [cal EXCEPT !.pc = "done",
                          !.windows = months(cal.from_date, cal.to_date)]
    /\ UNCHANGED <<stamp, order>>


PriorLine == [prior |-> TRUE]

\* The output tree a previous run left.
PriorFiles ==
    [p \in {<<"GB01", "account-details.json">>, <<"GB01", "balances.jsonl">>,
            <<"GB01", "2024-03.jsonl">>} |-> <<PriorLine>>]

NoFiles == [p \in {} |-> <<>>]

NoAccount == [idx |-> 0, iban |-> "none", status |-> "none", resp |-> [booked |-> <<>>, pending |-> <<>>],
              by_month |-> NoFiles, todo |-> {}]

SRes0 == [result |-> "none", fail |-> "none", failed_at |-> 0, req |-> "none",
          start_date |-> None, end_date |-> None]

SIdle ==
    /\ sin = [provider |-> "bank", naccounts |-> 0, responses |-> "few",
              end_date |-> Date(2024, 6, 15), history |-> None]
    /\ spc = "idle"
    /\ sacct = NoAccount
    /\ sfiles = NoFiles
    /\ slog = <<>>
    /\ sres = SRes0

\* A run over a requisition of up to MaxAccounts accounts.
SInit ==
    /\ \E prov \in ProviderNames, n \in 0..MaxAccounts :
          sin = [provider |-> prov, naccounts |-> n, responses |-> "few",
                 end_date |-> Date(2024, 6, 15), history |-> None]
    /\ spc = "start"
    /\ sacct = NoAccount
    /\ sfiles \in {NoFiles, PriorFiles}
    /\ slog = <<>>
    /\ sres = SRes0

Get(what, acct) == [kind |-> "get", what |-> what, acct |-> acct]

Write(path, acct) == [kind |-> "write", what |-> path, acct |-> acct]

\* write_json_lines(path, lines) returning Ok: the atomic writer has put
\* the lines in place of whatever the path held.
Written(files, path, lines) ==
    [p \in DOMAIN files \cup {path} |-> IF p = path THEN lines ELSE files[p]]

\* `?`, bail! and return Err in Cmd::run and list_account.
SyncAbort(cause) ==
    /\ spc' = "done"
    /\ sres' = [sres EXCEPT !.result = "err", !.fail = cause, !.failed_at = sacct.idx]

\* config.load(), load_token(), and the lookup of the provider by name.
SyncLoad ==
    /\ spc = "start"
    /\ \/ /\ sin.provider \in KnownProviders
          /\ spc' = "load_state"
          /\ UNCHANGED sres
       \/ /\ sin.provider \notin KnownProviders
          /\ SyncAbort("provider")
       \/ SyncAbort("config")
    /\ UNCHANGED <<sin, sacct, sfiles, slog, linkState>>

\* load_state taking the state file away once it has read it.
SyncLoadState_Consume ==
    /\ spc = "load_state"
    /\ \/ /\ linkState # NoState
          /\ spc' = "fetch_requisition"
          /\ linkState' = NoState
          /\ UNCHANGED sres
       \/ /\ linkState = NoState
          /\ SyncAbort("no-state")
          /\ UNCHANGED linkState
       \/ /\ SyncAbort("state-io")
          /\ UNCHANGED linkState
    /\ UNCHANGED <<sin, sacct, sfiles, slog>>

\* provider_config.load_state(): the state file opened and parsed.
SyncLoadState ==
    /\ spc = "load_state"
    /\ \/ /\ linkState # NoState
          /\ spc' = "fetch_requisition"
          /\ UNCHANGED sres
       \/ /\ linkState = NoState
          /\ SyncAbort("no-state")
       \/ SyncAbort("state-io")
    /\ UNCHANGED <<sin, sacct, sfiles, slog, linkState>>

\* The requisition fetched by the id of the state file, and is_linked().
SyncFetchRequisition ==
    /\ spc = "fetch_requisition"
    /\ slog' = Append(slog, Get("requisition", 0))
    /\ \/ SyncAbort("remote")
       \/ \E code \in StatusCodes :
             LET status == RequisitionStatus(code) IN
             /\ status # "DeserializeError"
             /\ IF is_linked(status)
                THEN /\ spc' = "window"
                     /\ sres' = [sres EXCEPT !.req = status]
                ELSE /\ spc' = "done"
                     /\ sres' = [sres EXCEPT !.req = status, !.result = "err",
                                            !.fail = "not-linked"]
    /\ UNCHANGED <<sin, sacct, sfiles, linkState>>

\* The window, and the first turn of the loop over requisition.accounts.
SyncWindow ==
    /\ spc = "window"
    /\ LET start == RoundStart(RawStart(sin.end_date, sin.history)) IN
       IF sin.naccounts = 0
       THEN /\ spc' = "done"
            /\ sres' = [sres EXCEPT !.result = "ok", !.start_date = Some(start),
                                   !.end_date = Some(sin.end_date)]
            /\ UNCHANGED sacct
       ELSE /\ spc' = "fetch_details"
            /\ sres' = [sres EXCEPT !.start_date = Some(start),
                                   !.end_date = Some(sin.end_date)]
            /\ sacct' = [NoAccount EXCEPT !.idx = 1]
    /\ UNCHANGED <<sin, sfiles, slog, linkState>>

\* fetch_account
FetchDetails ==
    /\ spc = "fetch_details"
    /\ slog' = Append(slog, Get("details", sacct.idx))
    /\ \/ /\ SyncAbort("remote")
          /\ UNCHANGED sacct
       \/ /\ \E iban \in Ibans(sacct.idx), code \in AccountStatusCodes :
                sacct' = [sacct EXCEPT !.iban = iban, !.status = AccountStatus(code)]
          /\ spc' = "write_details"
          /\ UNCHANGED sres
    /\ UNCHANGED <<sin, sfiles, linkState>>

Details(acct) == [id |-> acct.idx, iban |-> acct.iban, status |-> acct.status]

\* write_json_lines(account-details.json, [details])
WriteDetails ==
    /\ spc = "write_details"
    /\ \/ /\ SyncAbort("io")
          /\ UNCHANGED <<sfiles, slog>>
       \/ LET path == <<sacct.iban, "account-details.json">> IN
          /\ sfiles' = Written(sfiles, path, <<Details(sacct)>>)
          /\ slog' = Append(slog, Write(path, sacct.idx))
          /\ spc' = "check_status"
          /\ UNCHANGED sres
    /\ UNCHANGED <<sin, sacct, linkState>>

\* The status check left out.
CheckStatus_Skip ==
    /\ spc = "check_status"
    /\ spc' = "fetch_balances"
    /\ UNCHANGED <<sin, sacct, sfiles, slog, sres, linkState>>

\* if status != AccountStatus::Ready { bail!(...) }
CheckStatus ==
    /\ spc = "check_status"
    /\ IF sacct.status # "Ready"
       THEN SyncAbort("account-unusable")
       ELSE /\ spc' = "fetch_balances"
            /\ UNCHANGED sres
    /\ UNCHANGED <<sin, sacct, sfiles, slog, linkState>>

\* fetch_balances
FetchBalances ==
    /\ spc = "fetch_balances"
    /\ slog' = Append(slog, Get("balances", sacct.idx))
    /\ \/ SyncAbort("remote")
       \/ /\ spc' = "write_balances"
          /\ UNCHANGED sres
    /\ UNCHANGED <<sin, sacct, sfiles, linkState>>

BalanceLine == [balanceType |-> "expected"]

\* write_json_lines(balances.jsonl, balances.balances)
WriteBalances ==
    /\ spc = "write_balances"
    /\ \/ /\ SyncAbort("io")
          /\ UNCHANGED <<sfiles, slog>>
       \/ LET path == <<sacct.iban, "balances.jsonl">> IN
          /\ sfiles' = Written(sfiles, path, <<BalanceLine>>)
          /\ slog' = Append(slog, Write(path, sacct.idx))
          /\ spc' = "fetch_transactions"
          /\ UNCHANGED sres
    /\ UNCHANGED <<sin, sacct, linkState>>

\* The response deserialized, and the two loops that fill by_month.
Receive(resp) ==
    LET m == by_month_of(resp.booked, resp.pending) IN
    sacct' = [sacct EXCEPT !.resp = resp, !.by_month = m, !.todo = DOMAIN m]

\* fetch_transactions, and the two loops that fill by_month.  The
\* responses a run draws from: "few",
\* FewResponses; "wide", up to MaxTx transactions of TxUniverse, split
\* anywhere between booked and pending; "sort", up to MaxSortTx
\* transactions of SortUniverse, at most one of them pending.
FetchTransactions ==
    LET ResponseUniverse == IF sin.responses = "sort" THEN SortUniverse ELSE TxUniverse
        MaxBooked == IF sin.responses = "sort" THEN MaxSortTx ELSE MaxTx
        MaxPending(nb) ==
            IF sin.responses = "sort" THEN (IF nb < MaxSortTx THEN 1 ELSE 0) ELSE MaxTx - nb
    IN
    /\ spc = "fetch_transactions"
    /\ slog' = Append(slog, Get("transactions", sacct.idx))
    /\ \/ /\ SyncAbort("remote")
          /\ UNCHANGED sacct
       \/ /\ \/ /\ sin.responses = "few"
                /\ \E resp \in FewResponses : Receive(resp)
             \/ /\ sin.responses # "few"
                /\ \E nb \in 0..MaxBooked : \E np \in 0..MaxPending(nb) :
                      \E b \in SeqsOfLen(ResponseUniverse, nb),
                         q \in SeqsOfLen(ResponseUniverse, np) :
                         Receive([booked |-> b, pending |-> q])
          /\ spc' = "write_buckets"
          /\ UNCHANGED sres
    /\ UNCHANGED <<sin, sfiles, linkState>>

\* A failed write of a bucket undoing the account: the files of the
\* account are removed.
WriteBucket_RollBack ==
    /\ spc = "write_buckets"
    /\ \E month \in sacct.todo :
          \/ /\ SyncAbort("io")
             /\ sfiles' = [p \in {q \in DOMAIN sfiles : q[1] # sacct.iban} |-> sfiles[p]]
             /\ UNCHANGED <<sacct, slog>>
          \/ LET path == <<sacct.iban, FileName(month)>> IN
             /\ sfiles' = Written(sfiles, path, sort_by(sacct.by_month[month]))
             /\ slog' = Append(slog, Write(path, sacct.idx))
             /\ sacct' = [sacct EXCEPT !.todo = @ \ {month}]
             /\ UNCHANGED <<spc, sres>>
    /\ UNCHANGED <<sin, linkState>>

\* One turn of the loop over by_month, whose order the HashMap decides: the
\* file name, the sort, the write.
WriteBucket ==
    /\ spc = "write_buckets"
    /\ \E month \in sacct.todo :
          \/ /\ SyncAbort("io")
             /\ UNCHANGED <<sacct, sfiles, slog>>
          \/ LET path == <<sacct.iban, FileName(month)>> IN
             /\ sfiles' = Written(sfiles, path, sort_by(sacct.by_month[month]))
             /\ slog' = Append(slog, Write(path, sacct.idx))
             /\ sacct' = [sacct EXCEPT !.todo = @ \ {month}]
             /\ UNCHANGED <<spc, sres>>
    /\ UNCHANGED <<sin, linkState>>

\* The loop over the accounts going on after an account failed.
AccountReturns_Continue ==
    \/ /\ spc = "write_buckets"
       /\ sacct.todo = {}
       /\ IF sacct.idx < sin.naccounts
          THEN /\ sacct' = [NoAccount EXCEPT !.idx = sacct.idx + 1]
               /\ spc' = "fetch_details"
               /\ UNCHANGED sres
          ELSE /\ spc' = "done"
               /\ sres' = [sres EXCEPT !.result = "ok"]
               /\ UNCHANGED sacct
       /\ UNCHANGED <<sin, sfiles, slog, linkState>>
    \/ /\ spc = "done"
       /\ sres.result = "err"
       /\ sres.failed_at \in 1..(sin.naccounts - 1)
       /\ sacct.idx = sres.failed_at
       /\ sacct' = [NoAccount EXCEPT !.idx = sacct.idx + 1]
       /\ spc' = "fetch_details"
       /\ UNCHANGED <<sin, sfiles, slog, sres, linkState>>

\* list_account returns Ok(()): the next account, or the end of the run.
AccountReturns ==
    /\ spc = "write_buckets"
    /\ sacct.todo = {}
    /\ IF sacct.idx < sin.naccounts
       THEN /\ sacct' = [NoAccount EXCEPT !.idx = sacct.idx + 1]
            /\ spc' = "fetch_details"
            /\ UNCHANGED sres
       ELSE /\ spc' = "done"
            /\ sres' = [sres EXCEPT !.result = "ok"]
            /\ UNCHANGED sacct
    /\ UNCHANGED <<sin, sfiles, slog, linkState>>

-----------------------------------------------------------------------------
(* The specifications.                                                     *)

InitWrite == WInit /\ CIdle /\ WinIdle /\ SIdle /\ JIdle /\ TIdle

NextWrite ==
    \/ WStart /\ UNCHANGED <<cvars, win, svars, jvars, tvars>>
    \/ WMkdir /\ UNCHANGED <<cvars, win, svars, jvars, tvars>>
    \/ WMktemp /\ UNCHANGED <<cvars, win, svars, jvars, tvars>>
    \/ WSerialize /\ UNCHANGED <<cvars, win, svars, jvars, tvars>>
    \/ WSpill /\ UNCHANGED <<cvars, win, svars, jvars, tvars>>
    \/ WWritten /\ UNCHANGED <<cvars, win, svars, jvars, tvars>>
    \/ WFlush /\ UNCHANGED <<cvars, win, svars, jvars, tvars>>
    \/ WPersist /\ UNCHANGED <<cvars, win, svars, jvars, tvars>>
    \/ WCrash /\ UNCHANGED <<cvars, win, svars, jvars, tvars>>
    \/ WRestart /\ UNCHANGED <<cvars, win, svars, jvars, tvars>>

SpecWrite == InitWrite /\ [][NextWrite]_vars

\* The writer on a machine that writes data back when it pleases and can
\* lose power.
NextDurable ==
    \/ WStart /\ UNCHANGED <<cvars, win, svars, jvars, tvars>>
    \/ WMkdir /\ UNCHANGED <<cvars, win, svars, jvars, tvars>>
    \/ WMktemp /\ UNCHANGED <<cvars, win, svars, jvars, tvars>>
    \/ WSerialize /\ UNCHANGED <<cvars, win, svars, jvars, tvars>>
    \/ WSpill /\ UNCHANGED <<cvars, win, svars, jvars, tvars>>
    \/ WWritten /\ UNCHANGED <<cvars, win, svars, jvars, tvars>>
    \/ WFlush /\ UNCHANGED <<cvars, win, svars, jvars, tvars>>
    \/ WPersist /\ UNCHANGED <<cvars, win, svars, jvars, tvars>>
    \/ WWriteback /\ UNCHANGED <<cvars, win, svars, jvars, tvars>>
    \/ WPowerLoss /\ UNCHANGED <<cvars, win, svars, jvars, tvars>>
    \/ WRestart /\ UNCHANGED <<cvars, win, svars, jvars, tvars>>

SpecDurable == InitWrite /\ [][NextDurable]_vars

InitConnect == CInit /\ WIdle /\ WinIdle /\ SIdle /\ JIdle /\ TIdle

NextConnect ==
    \/ RunLoad /\ UNCHANGED <<wvars, win, svars, jvars, tvars>>
    \/ RunBind /\ UNCHANGED <<wvars, win, svars, jvars, tvars>>
    \/ RunPost /\ UNCHANGED <<wvars, win, svars, jvars, tvars>>
    \/ ProviderChanges /\ UNCHANGED <<wvars, win, svars, jvars, tvars>>
    \/ \E r \in Requests : Arrive(r) /\ UNCHANGED <<wvars, win, svars, jvars, tvars>>
    \/ \E r \in Requests : HandleRedirectStart(r) /\ UNCHANGED <<wvars, win, svars, jvars, tvars>>
    \/ \E r \in Requests : HandleRedirectResume(r) /\ UNCHANGED <<wvars, win, svars, jvars, tvars>>
    \/ GracefulShutdown /\ UNCHANGED <<wvars, win, svars, jvars, tvars>>
    \/ ServeReturns /\ UNCHANGED <<wvars, win, svars, jvars, tvars>>
    \/ RunRefetch /\ UNCHANGED <<wvars, win, svars, jvars, tvars>>
    \/ RunWriteState /\ UNCHANGED <<wvars, win, svars, jvars, tvars>>

SpecConnect == InitConnect /\ [][NextConnect]_vars

\* The handshake on tokio's runtime: a task that can run is run, and a
\* request sent to the provider is answered or fails.  Nothing makes a
\* browser send a callback, or the provider change the status.
SpecConnectLive ==
    /\ SpecConnect
    /\ \A r \in Requests : WF_cvars(HandleRedirectStart(r))
    /\ \A r \in Requests : WF_cvars(HandleRedirectResume(r))
    /\ WF_cvars(GracefulShutdown)
    /\ WF_cvars(ServeReturns)
    /\ WF_cvars(RunRefetch)
    /\ WF_cvars(RunWriteState)

InitWindow == WinInit /\ WIdle /\ CIdle /\ SIdle /\ JIdle /\ TIdle

NextWindow == ComputeWindow /\ UNCHANGED <<wvars, cvars, svars, jvars, tvars>>

SpecWindow == InitWindow /\ [][NextWindow]_vars

\* The state file holds what an earlier handshake wrote, if one completed.
InitSync ==
    /\ SInit /\ CRest /\ linkState \in {NoState, expected_requisition_id}
    /\ WIdle /\ WinIdle /\ JIdle /\ TIdle

NextSync ==
    \/ SyncLoad /\ UNCHANGED <<wvars, crun, win, jvars, tvars>>
    \/ SyncLoadState /\ UNCHANGED <<wvars, crun, win, jvars, tvars>>
    \/ SyncFetchRequisition /\ UNCHANGED <<wvars, crun, win, jvars, tvars>>
    \/ SyncWindow /\ UNCHANGED <<wvars, crun, win, jvars, tvars>>
    \/ FetchDetails /\ UNCHANGED <<wvars, crun, win, jvars, tvars>>
    \/ WriteDetails /\ UNCHANGED <<wvars, crun, win, jvars, tvars>>
    \/ CheckStatus /\ UNCHANGED <<wvars, crun, win, jvars, tvars>>
    \/ FetchBalances /\ UNCHANGED <<wvars, crun, win, jvars, tvars>>
    \/ WriteBalances /\ UNCHANGED <<wvars, crun, win, jvars, tvars>>
    \/ FetchTransactions /\ UNCHANGED <<wvars, crun, win, jvars, tvars>>
    \/ WriteBucket /\ UNCHANGED <<wvars, crun, win, jvars, tvars>>
    \/ AccountReturns /\ UNCHANGED <<wvars, crun, win, jvars, tvars>>

SpecSync == InitSync /\ [][NextSync]_vars

\* A run over one account, whose transactions response is any of the
\* "wide" ones.
InitIngest ==
    /\ sin = [provider |-> "bank", naccounts |-> 1, responses |-> "wide",
              end_date |-> Date(2024, 6, 15), history |-> None]
    /\ spc = "start"
    /\ sacct = NoAccount
    /\ sfiles \in {NoFiles, PriorFiles}
    /\ slog = <<>>
    /\ sres = SRes0
    /\ CRest /\ linkState = expected_requisition_id /\ WIdle /\ WinIdle /\ JIdle /\ TIdle

SpecIngest == InitIngest /\ [][NextSync]_vars

\* A run over one account, whose transactions response is any of the
\* "sort" ones.
InitSort ==
    /\ sin = [provider |-> "bank", naccounts |-> 1, responses |-> "sort",
              end_date |-> Date(2024, 6, 15), history |-> None]
    /\ spc = "start"
    /\ sacct = NoAccount
    /\ sfiles = NoFiles
    /\ slog = <<>>
    /\ sres = SRes0
    /\ CRest /\ linkState = expected_requisition_id /\ WIdle /\ WinIdle /\ JIdle /\ TIdle

SpecSort == InitSort /\ [][NextSync]_vars

InitSerde == JInit /\ WIdle /\ CIdle /\ WinIdle /\ SIdle /\ TIdle

NextSerde ==
    \/ JDeserialize /\ UNCHANGED <<wvars, cvars, win, svars, tvars>>
    \/ JSerialize /\ UNCHANGED <<wvars, cvars, win, svars, tvars>>
    \/ JReadBack /\ UNCHANGED <<wvars, cvars, win, svars, tvars>>

SpecSerde == InitSerde /\ [][NextSerde]_vars

\* A transaction with any of its four date fields: booking dates on and
\* around the days the clocks change in London, value dates in winter and
\* in summer.
InitTimestamp ==
    /\ \E bd \in {None, Some(Date(2024, 3, 31)), Some(Date(2024, 4, 1)),
                 Some(Date(2024, 10, 27))},
          bdt \in {None, Some(DateTimeUtc(Date(2024, 3, 31), 23)),
                   Some(DateTimeUtc(Date(2024, 5, 1), 0))},
          vdt \in ValueDateTimes,
          vd \in {None, Some(Date(2023, 12, 31)), Some(Date(2024, 10, 28))} :
          stamp = [pc |-> "received",
                   tx |-> [NoTx EXCEPT !.booking_date = bd, !.booking_date_time = bdt,
                                       !.value_date_time = vdt, !.value_date = vd],
                   ts |-> None]
    /\ order = [pc |-> "idle", a |-> Booked(NoTx), b |-> Booked(NoTx), c |-> Booked(NoTx),
                ab |-> 0, bc |-> 0, ac |-> 0, sorted |-> <<>>, reversed |-> <<>>]
    /\ cal = [pc |-> "idle"]
    /\ WIdle /\ CIdle /\ WinIdle /\ SIdle /\ JIdle

NextTimestamp == TimestampBestEffort /\ UNCHANGED <<wvars, cvars, win, svars, jvars>>

SpecTimestamp == InitTimestamp /\ [][NextTimestamp]_vars

\* Three booked transactions of one bucket: a value date-time or none, the
\* id "a", "b" or none.
InitOrder ==
    /\ stamp = [pc |-> "idle", tx |-> NoTx, ts |-> None]
    /\ \E x \in SortUniverse, y \in SortUniverse, z \in SortUniverse :
          order = [pc |-> "received", a |-> Booked(x), b |-> Booked(y), c |-> Booked(z),
                   ab |-> 0, bc |-> 0, ac |-> 0, sorted |-> <<>>, reversed |-> <<>>]
    /\ cal = [pc |-> "idle"]
    /\ WIdle /\ CIdle /\ WinIdle /\ SIdle /\ JIdle

NextOrder == SortThree /\ UNCHANGED <<wvars, cvars, win, svars, jvars>>

SpecOrder == InitOrder /\ [][NextOrder]_vars

\* A range given to run_sync: from_date within some weeks that hold the end
\* of a leap February, to_date up to some weeks before it or months after.
InitMonths ==
    /\ \E f \in 0..FromDateSpan, t \in (0 - ToDateBefore)..ToDateAfter :
          cal = [pc |-> "received",
                 from_date |-> AddDays(Date(2024, 1, 15), f),
                 to_date |-> AddDays(Date(2024, 1, 15), f + t),
                 windows |-> <<>>]
    /\ stamp = [pc |-> "idle", tx |-> NoTx, ts |-> None]
    /\ order = [pc |-> "idle", a |-> Booked(NoTx), b |-> Booked(NoTx), c |-> Booked(NoTx),
                ab |-> 0, bc |-> 0, ac |-> 0, sorted |-> <<>>, reversed |-> <<>>]
    /\ WIdle /\ CIdle /\ WinIdle /\ SIdle /\ JIdle

NextMonths == Months /\ UNCHANGED <<wvars, cvars, win, svars, jvars>>

SpecMonths == InitMonths /\ [][NextMonths]_vars

-----------------------------------------------------------------------------
(* C1: in every state of every execution of the atomic writer, a process   *)
(* crash at any step included, the destination of the write in progress    *)
(* (or of the last write) holds either the complete content it had when    *)
(* the write was called (or is still absent) or the complete new content;  *)
(* no path ever holds a partially written content.                         *)
C1_OldOrNew ==
    /\ wjob # NoJob =>
          /\ fs[wjob.path] \in {wprev, FullContent(wjob.ver)}
          /\ wres = "ok" => fs[wjob.path] = FullContent(wjob.ver)
          /\ (wres = "err" \/ wpc \in {"mkdir", "mktemp", "write", "flush", "persist"})
                => fs[wjob.path] = wprev
    /\ \A p \in Paths : Complete(fs[p])

\* A crash in the middle of the write: the temporary file holds a strict,
\* non-empty prefix of the new content, the destination its previous content.
C1_Witness ==
    /\ wpc = "crashed"
    /\ wtmp # 0
    /\ Len(temps[wtmp].data) \in 1..(NChunks - 1)
    /\ wprev # Absent
    /\ wprev # FullContent(wjob.ver)
    /\ fs[wjob.path] = wprev

-----------------------------------------------------------------------------
C3_LinkedCancelsOnce ==
    /\ \A r \in Requests :
          (reqs[r].pc = "done" /\ reqs[r].ref = expected_requisition_id
             /\ reqs[r].got = "Linked") =>
                /\ reqs[r].resp = "200 Ok"
                /\ r \in chist.cancellers
    /\ chist.cancellers # {} => cnx
    /\ chist.resumed <= 1
    /\ cpc \in {"refetch", "write_state"} => chist.resumed = 1
    /\ (cpc = "done" /\ cfail \in {"none", "refetch", "write_state"})
          => chist.resumed = 1

\* Two callbacks that were in flight together both fetched Linked, both
\* cancelled, both were answered 200 OK, and the foreground resumed once.
C3_Witness ==
    /\ \A r \in {1, 2} :
          /\ reqs[r].got = "Linked"
          /\ reqs[r].resp = "200 Ok"
          /\ r \in chist.cancellers
    /\ chist.resumed = 1
    /\ cpc = "done"
    /\ cresult = "ok"

(* C4: if the token is cancelled, or the final GET has been issued, or the *)
(* state file has been written in this run, then a callback with the       *)
(* expected ref has fetched status Linked before.                          *)
C4_SoleSuccessExit ==
    (cnx \/ chist.finalIssued \/ chist.persisted \/ cpc \in {"refetch", "write_state"}
        \/ cresult = "ok")
       => chist.sawLinked

\* The handshake ended well after a callback that saw Rejected (which did
\* not end it) and one that saw Linked.
C4_Witness ==
    /\ chist.persisted
    /\ linkState = expected_requisition_id
    /\ reqs[1].got = "Rejected"
    /\ reqs[2].got = "Linked"

C7_WindowStart ==
    win.pc = "computed" =>
       LET n == IF win.history.some THEN win.history.v ELSE 90
           raw == win.raw_start
           following == IF raw.month = 12 THEN Date(raw.year + 1, 1, 1)
                        ELSE Date(raw.year, raw.month + 1, 1)
       IN  /\ DayNumber(raw) = DayNumber(win.end_date) - n + 1
           /\ raw.day = 1 => win.start_date = raw
           /\ raw.day # 1 => win.start_date = following
           /\ win.start_date.day = 1
           /\ DayNumber(win.start_date) >= DayNumber(raw)
           /\ (n = 90 /\ win.end_date = Date(2024, 6, 15)) =>
                 /\ raw = Date(2024, 3, 18)
                 /\ win.start_date = Date(2024, 4, 1)

\* The spec's example, with history_days unset.
C7_Witness ==
    /\ win.pc = "computed"
    /\ win.history = None
    /\ win.end_date = Date(2024, 6, 15)
    /\ win.raw_start = Date(2024, 3, 18)
    /\ win.start_date = Date(2024, 4, 1)

(* C6: when the provider name is unknown, or the state file is absent, or  *)
(* the requisition fetched has a status other than Linked, the run issues  *)
(* no request for any account, writes no file, leaves the output tree as   *)
(* it found it, and ends with an error.                                    *)
C6_AbortsWithoutSideEffects ==
    (sin.provider \notin KnownProviders \/ linkState = NoState
        \/ sres.req \notin {"none", "Linked"})
       => /\ \A i \in 1..Len(slog) :
                slog[i].kind = "get" /\ slog[i].what = "requisition"
          /\ sfiles \in {NoFiles, PriorFiles}
          /\ spc \in {"start", "load_state", "fetch_requisition", "done"}
          /\ spc = "done" => sres.result = "err"
          /\ sres.result # "ok"

\* The requisition of the state file has expired: the run over its two
\* accounts ended with "not linked", the previous run's files untouched.
C6_Witness ==
    /\ spc = "done"
    /\ sres.fail = "not-linked"
    /\ sres.req = "Expired"
    /\ sin.naccounts = 2
    /\ sfiles = PriorFiles
    /\ Len(slog) = 1
    /\ slog[1].kind = "get"
    /\ slog[1].what = "requisition"

(* C8: the requests and writes of a run are ordered by the position of     *)
(* their account in the requisition; an account is started only after the  *)
(* one before it was ingested to the end; after a failure in account i     *)
(* nothing is requested or written for a later account and the run has     *)
(* failed; a run that succeeded has ingested every account.                *)
C8_SequentialFailFast ==
    LET Has(e) == \E i \in 1..Len(slog) : slog[i].kind = e.kind /\ slog[i] = e
        Started(a) == \E i \in 1..Len(slog) : slog[i].acct = a
    IN  /\ \A i, j \in 1..Len(slog) : i < j => slog[i].acct <= slog[j].acct
        /\ \A a \in 2..sin.naccounts :
              Started(a) => /\ Has(Get("transactions", a - 1))
                            /\ sres.failed_at \notin 1..(a - 1)
        /\ sres.fail # "none" =>
              /\ sres.result = "err"
              /\ spc = "done"
              /\ \A i \in 1..Len(slog) : slog[i].acct <= sres.failed_at
        /\ sres.result = "ok" =>
              \A a \in 1..sin.naccounts :
                 /\ Has(Get("details", a))
                 /\ Has(Get("balances", a))
                 /\ Has(Get("transactions", a))

\* The first of two accounts failed at its balances, after its details
\* were written: the run ended there, the second account never touched.
C8_Witness ==
    /\ sin.naccounts = 2
    /\ spc = "done"
    /\ sres.result = "err"
    /\ sres.failed_at = 1
    /\ Len(slog) = 4
    /\ slog[2] = Get("details", 1)
    /\ slog[3].kind = "write"
    /\ slog[3] = Write(<<"GB01", "account-details.json">>, 1)
    /\ slog[4] = Get("balances", 1)

(* C9: the details of an account are in account-details.json when its      *)
(* status is checked; for an account whose status is not Ready nothing but *)
(* the fetch and the write of its details is ever requested or written,    *)
(* the run ends with an error, and the details file stays.                 *)
C9_NotReadyAborts ==
    LET details == <<sacct.iban, "account-details.json">> IN
    /\ spc = "check_status" =>
          /\ details \in DOMAIN sfiles
          /\ sfiles[details] = <<Details(sacct)>>
          /\ slog[Len(slog)].kind = "write"
          /\ slog[Len(slog)] = Write(details, sacct.idx)
    /\ sacct.status \notin {"none", "Ready"} =>
          /\ spc \in {"write_details", "check_status", "done"}
          /\ \A i \in 1..Len(slog) :
                slog[i].acct = sacct.idx =>
                   IF slog[i].kind = "get" THEN slog[i].what = "details"
                                           ELSE slog[i].what = details
          /\ spc = "done" => sres.result = "err"
          /\ (spc = "done" /\ sres.fail = "account-unusable") =>
                /\ sfiles[details] = <<Details(sacct)>>
                /\ slog[Len(slog)].kind = "write"
                /\ slog[Len(slog)] = Write(details, sacct.idx)

\* An account in status Error: its details replaced the previous run's,
\* its balances and its March bucket are the previous run's still.
C9_Witness ==
    /\ spc = "done"
    /\ sres.fail = "account-unusable"
    /\ sacct.status = "Error"
    /\ sacct.idx = 1
    /\ <<"GB01", "2024-03.jsonl">> \in DOMAIN sfiles
    /\ sfiles[<<"GB01", "account-details.json">>] = <<Details(sacct)>>
    /\ sfiles[<<"GB01", "balances.jsonl">>] = <<PriorLine>>
    /\ sfiles[<<"GB01", "2024-03.jsonl">>] = <<PriorLine>>

(* C10: after a successful ingestion every transaction of the response     *)
(* that has a booking date, a booking date-time or a value date is in the  *)
(* file named after the year and month of the first of these it has, and   *)
(* in no other file written; one whose only date is the booking date       *)
(* 2024-03-15 is in 2024-03.jsonl.                                         *)
C10_BucketByBestEffortDate ==
    LET TaggedResponse == Tagged(sacct.resp.booked, sacct.resp.pending)
        InFile(path, line) ==
            /\ path \in DOMAIN sfiles
            /\ \E k \in 1..Len(sfiles[path]) : sfiles[path][k] = line
    IN
    (spc = "done" /\ sres.result = "ok" /\ sacct.idx # 0) =>
       \A i \in 1..Len(TaggedResponse) :
          LET line == TaggedResponse[i]
              t == line.tx
              d == IF t.booking_date.some THEN t.booking_date.v
                   ELSE IF t.booking_date_time.some
                        THEN DateOfDayNumber(t.booking_date_time.v \div 24)
                        ELSE t.value_date.v
              name == ToString(d.year) \o "-"
                         \o (IF d.month < 10 THEN "0" ELSE "") \o ToString(d.month)
                         \o ".jsonl"
          IN  /\ (t.booking_date.some \/ t.booking_date_time.some \/ t.value_date.some) =>
                    /\ InFile(<<sacct.iban, name>>, line)
                    /\ \A e \in 1..Len(slog) :
                          (slog[e].kind = "write" /\ slog[e].what # <<sacct.iban, name>>)
                             => ~InFile(slog[e].what, line)
              /\ t = [NoTx EXCEPT !.booking_date = Some(Date(2024, 3, 15))] =>
                    InFile(<<sacct.iban, "2024-03.jsonl">>, line)

\* A booked transaction with only the booking date 2024-03-15 is in
\* 2024-03.jsonl; a pending one with booking date 2024-04-01, a booking
\* date-time on 2024-03-31 and a value date in December 2023 is in
\* 2024-04.jsonl.
C10_Witness ==
    /\ spc = "done"
    /\ sres.result = "ok"
    /\ <<"GB01", "2023-12.jsonl">> \notin DOMAIN sfiles
    /\ <<"GB01", "2024-03.jsonl">> \in DOMAIN sfiles
    /\ sfiles[<<"GB01", "2024-03.jsonl">>] =
          <<Booked([NoTx EXCEPT !.booking_date = Some(Date(2024, 3, 15))])>>
    /\ <<"GB01", "2024-04.jsonl">> \in DOMAIN sfiles
    /\ sfiles[<<"GB01", "2024-04.jsonl">>] =
          <<Pending([NoTx EXCEPT !.booking_date = Some(Date(2024, 4, 1)),
                                 !.booking_date_time = Some(DateTimeUtc(Date(2024, 3, 31), 23)),
                                 !.value_date = Some(Date(2023, 12, 31))])>>

(* C11: after a successful ingestion a transaction of the response is in   *)
(* undated.json if and only if its booking date, booking date-time, value  *)
(* date and value date-time are all absent.                                *)
C11_UndatedIffNoDates ==
    LET TaggedResponse == Tagged(sacct.resp.booked, sacct.resp.pending)
        undated == <<sacct.iban, "undated.json">>
    IN
    (spc = "done" /\ sres.result = "ok" /\ sacct.idx # 0) =>
       \A i \in 1..Len(TaggedResponse) :
          LET line == TaggedResponse[i]
              t == line.tx
              inUndated == /\ undated \in DOMAIN sfiles
                           /\ \E k \in 1..Len(sfiles[undated]) : sfiles[undated][k] = line
          IN  inUndated <=> (/\ ~t.booking_date.some
                             /\ ~t.booking_date_time.some
                             /\ ~t.value_date.some
                             /\ ~t.value_date_time.some)

(* C12: after a successful ingestion, in every bucket file any two         *)
(* transactions that both have a best-effort timestamp stand in the order  *)
(* of their timestamps: the strictly earlier one is the earlier line.      *)
C12_AscendingTimestamps ==
    (spc = "done" /\ sres.result = "ok" /\ sacct.idx # 0) =>
       \A month \in DOMAIN sacct.by_month :
          LET file == sfiles[<<sacct.iban, FileName(month)>>] IN
          \A i, j \in 1..Len(file) :
             LET left == timestamp_best_effort(file[i].tx)
                 right == timestamp_best_effort(file[j].tx)
             IN  (left.some /\ right.some /\ left.v < right.v) => i < j

(* C13: after a successful ingestion, in every bucket file two             *)
(* transactions with equal best-effort timestamps stand in the order of    *)
(* their transaction ids, an absent id before a present one, and, when     *)
(* these are equal too, in the order of their internal transaction ids.    *)
C13_TieBreakOnIds ==
    (spc = "done" /\ sres.result = "ok" /\ sacct.idx # 0) =>
       \A month \in DOMAIN sacct.by_month :
          LET file == sfiles[<<sacct.iban, FileName(month)>>] IN
          \A i, j \in 1..Len(file) :
             LET a == file[i].tx
                 b == file[j].tx
                 left == timestamp_best_effort(a)
                 right == timestamp_best_effort(b)
                 byId == CmpOptStr(a.transaction_id, b.transaction_id)
                 byInternalId == CmpOptStr(a.internal_transaction_id,
                                           b.internal_transaction_id)
             IN  (/\ left.some /\ right.some /\ left.v = right.v
                  /\ byId = -1 \/ (byId = 0 /\ byInternalId = -1))
                    => i < j

(* C14: after a successful ingestion, in no bucket file does a transaction *)
(* without a best-effort timestamp stand before one that has a timestamp.  *)
C14_MissingTimestampLast ==
    (spc = "done" /\ sres.result = "ok" /\ sacct.idx # 0) =>
       \A month \in DOMAIN sacct.by_month :
          LET file == sfiles[<<sacct.iban, FileName(month)>>] IN
          \A i, j \in 1..Len(file) :
             (/\ ~timestamp_best_effort(file[i].tx).some
              /\ timestamp_best_effort(file[j].tx).some) => j < i

(* C15: what a successful ingestion leaves in the bucket files is decided  *)
(* by the response alone, not by the order in which the bucket map was     *)
(* walked: the files written are those named by the months of the          *)
(* transactions, one write each, and each holds the sorted lines of its    *)
(* month, booked before pending as received.                               *)
C15_Deterministic ==
    LET tagged == Tagged(sacct.resp.booked, sacct.resp.pending)
        NameOf(line) == FileName(start_of_month(line.tx))
        names == {NameOf(tagged[i]) : i \in 1..Len(tagged)}
        bucketWrites == {e \in 1..Len(slog) :
                            /\ slog[e].kind = "write"
                            /\ slog[e].what[2] \notin {"account-details.json", "balances.jsonl"}}
        Lines(name) == SelectSeq(tagged, LAMBDA line : NameOf(line) = name)
    IN
    (spc = "done" /\ sres.result = "ok" /\ sacct.idx # 0) =>
       /\ {slog[e].what : e \in bucketWrites} = {<<sacct.iban, name>> : name \in names}
       /\ Cardinality(bucketWrites) = Cardinality(names)
       /\ \A name \in names :
             sfiles[<<sacct.iban, name>>] = sort_by(Lines(name))

\* Two buckets, April's written before March's: each file holds its own
\* month's lines.
C15_Witness ==
    /\ spc = "done"
    /\ sres.result = "ok"
    /\ Len(slog) = 8
    /\ slog[7].kind = "write"
    /\ slog[7].what = <<"GB01", "2024-04.jsonl">>
    /\ slog[8].kind = "write"
    /\ slog[8].what = <<"GB01", "2024-03.jsonl">>
    /\ sfiles[<<"GB01", "2024-03.jsonl">>] =
          <<Booked([NoTx EXCEPT !.booking_date = Some(Date(2024, 3, 15))])>>
    /\ sfiles[<<"GB01", "2024-04.jsonl">>] =
          <<Booked([NoTx EXCEPT !.booking_date = Some(Date(2024, 4, 1))])>>

C17_NoArrivalAfterCancel ==
    [][/\ cnx => \A r \in Requests : reqs[r].pc = "none" => reqs'[r].pc = "none"
       /\ (cpc = "serve" /\ cpc' # "serve") =>
             \A r \in Requests :
                /\ ~InFlight(r)
                /\ reqs[r].pc = "done" => reqs[r].resp # "none"]_vars

(* C17, amended: once the listener has seen the cancellation no further    *)
(* request is accepted; a request accepted before that, in flight or not   *)
(* when the token was cancelled, is served to its response; the run leaves *)
(* axum::serve only when no request is being served, and every request     *)
(* accepted has then been answered.                                        *)
C17_GracefulShutdown ==
    [][/\ listener # "accepting" =>
             \A r \in Requests : reqs[r].pc = "none" => reqs'[r].pc = "none"
       /\ \A r \in Requests :
             InFlight(r) => (InFlight(r)' \/ (reqs'[r].pc = "done" /\ reqs'[r].resp # "none"))
       /\ (cpc = "serve" /\ cpc' # "serve") =>
             \A r \in Requests :
                /\ ~InFlight(r)
                /\ reqs[r].pc = "done" => reqs[r].resp # "none"]_vars

\* The first request saw Linked and cancelled, the listener has stopped
\* accepting, the second request is still being served: the run waits.
C17_Witness ==
    /\ cnx
    /\ listener = "draining"
    /\ cpc = "serve"
    /\ reqs[1].pc = "done"
    /\ reqs[1].got = "Linked"
    /\ reqs[2].pc = "fetching"

C19_RejectedExpiredKeepWaiting ==
    [][\A r \in Requests :
          (reqs[r].pc = "fetching" /\ reqs'[r].pc = "done"
              /\ reqs'[r].got \in {"Rejected", "Expired"}) =>
             /\ reqs'[r].resp = "200 Ok"
             /\ cnx' = cnx
             /\ listener' = listener
             /\ cpc' = cpc
             /\ r \notin chist'.cancellers]_vars

\* One callback has been answered for Rejected and one for Expired; the
\* token is not cancelled, the listener accepts and Cmd::run is in serve.
C19_Witness ==
    /\ reqs[1].pc = "done"
    /\ reqs[1].got = "Rejected"
    /\ reqs[1].resp = "200 Ok"
    /\ reqs[2].pc = "done"
    /\ reqs[2].got = "Expired"
    /\ reqs[2].resp = "200 Ok"
    /\ ~cnx
    /\ listener = "accepting"
    /\ cpc = "serve"

(* C20: a callback whose GET returned a requisition with a status code     *)
(* outside the eight known ones deserialized it, answered 200 Ok and did   *)
(* not cancel the token.                                                   *)
C20_UnknownStatusAnswered200 ==
    \A r \in Requests :
       (reqs[r].pc = "done"
           /\ reqs[r].body \notin {"none", "CR", "GC", "UA", "RJ", "SA", "GA", "LN", "EX"}) =>
          /\ reqs[r].got # "error"
          /\ reqs[r].resp = "200 Ok"
          /\ r \notin chist.cancellers

(* C21: Cmd::run goes through its steps in one order.  The listener serves *)
(* only after the requisition was created; the final GET is issued only    *)
(* after the token was cancelled and the listener has stopped, and once;   *)
(* the state file changes only in the step after that GET, with the        *)
(* listener stopped, to the requisition's id, and at most once in a run.   *)
C21_FixedOrder ==
    [][/\ (listener' \in {"accepting", "draining"}) => remote' # "none"
       /\ (cpc' \in {"refetch", "write_state"}) =>
             /\ cnx'
             /\ listener' = "stopped"
             /\ chist'.resumed = 1
             /\ ~chist'.persisted
       /\ (cpc = "serve" /\ cpc' # "serve") => (cnx /\ listener = "draining")
       /\ chist'.resumed <= 1
       /\ (linkState' # linkState \/ chist'.persisted # chist.persisted) =>
             /\ cpc = "write_state"
             /\ listener = "stopped"
             /\ chist.resumed = 1
             /\ ~chist.persisted
             /\ chist'.persisted
             /\ linkState' = expected_requisition_id]_vars

\* A run that ended well over a state file that named another requisition:
\* the file now names this one, one final GET was issued, the listener has
\* stopped.
C21_Witness ==
    /\ cpc = "done"
    /\ cresult = "ok"
    /\ chist.persisted
    /\ chist.resumed = 1
    /\ chist.finalIssued
    /\ listener = "stopped"
    /\ linkState = expected_requisition_id
    /\ reqs[1].pc = "done"
    /\ reqs[1].got = "Linked"
    /\ reqs[2].pc = "none"

(* C22: the writes of one account are in the order account-details.json,   *)
(* balances.jsonl, bucket files, the first two once each.  A step changes  *)
(* the output tree only by replacing the one file whose write it logs; the *)
(* step in which the run fails changes no file, and no step follows it: a  *)
(* file replaced before the failure keeps its new content, a file not      *)
(* reached keeps the content it had.                                       *)
C22_OrderedNoRollback ==
    [][LET Rank(e) ==
               IF e.what[2] = "account-details.json" THEN 0
               ELSE IF e.what[2] = "balances.jsonl" THEN 1 ELSE 2
           IsWrite(e) == e.kind = "write"
       IN
       /\ spc # "done"
       /\ \A i, j \in 1..Len(slog') :
             (i < j /\ IsWrite(slog'[i]) /\ IsWrite(slog'[j])
                 /\ slog'[i].acct = slog'[j].acct) =>
                /\ Rank(slog'[i]) <= Rank(slog'[j])
                /\ Rank(slog'[j]) < 2 => Rank(slog'[i]) < Rank(slog'[j])
       /\ (spc' = "done" /\ sres'.result = "err") => sfiles' = sfiles
       /\ sfiles' # sfiles =>
             /\ Len(slog') = Len(slog) + 1
             /\ IsWrite(slog'[Len(slog')])
             /\ slog'[Len(slog')].acct = sacct.idx
             /\ slog'[Len(slog')].what \in DOMAIN sfiles'
             /\ sfiles' = Written(sfiles, slog'[Len(slog')].what,
                                  sfiles'[slog'[Len(slog')].what])]_vars

\* The write of a bucket failed after the details and the balances of the
\* account were replaced: both hold this run's lines, and the March bucket
\* holds the previous run's.
C22_Witness ==
    /\ spc = "done"
    /\ sres.fail = "io"
    /\ sacct.idx = 1
    /\ sacct.todo # {}
    /\ <<"GB01", "2024-03.jsonl">> \in DOMAIN sfiles
    /\ sfiles[<<"GB01", "2024-03.jsonl">>] = <<PriorLine>>
    /\ sfiles[<<"GB01", "account-details.json">>] = <<Details(sacct)>>
    /\ sfiles[<<"GB01", "balances.jsonl">>] = <<BalanceLine>>

(* C23: all the data of the file a destination names has reached storage,  *)
(* at the rename and ever after, so that a destination holds a complete    *)
(* content after a loss of power too.                                      *)
C23_DurableBeforeVisible ==
    \A p \in Paths :
       /\ wstored.dest[p] = Len(fs[p].data)
       /\ Complete(fs[p])

(* C24: the step in which a write returns an error leaves every            *)
(* destination as it is, the written path with the content it had when the *)
(* write was called, and removes the temporary file of the write if one    *)
(* was created.                                                            *)
C24_FailureLeavesDestination ==
    [][(wres = "none" /\ wres' = "err") =>
          /\ wpc \in {"mkdir", "mktemp", "write", "flush", "persist"}
          /\ wpc' = "returned"
          /\ fs' = fs
          /\ fs'[wjob.path] = wprev
          /\ wtmp # 0 => ~temps'[wtmp].exists
          /\ \A t \in TempNames : temps'[t].exists => (t # wtmp /\ temps'[t] = temps[t])]_vars

\* A write of the second version over the first failed after the serializer
\* had finished: the destination holds the first version and there is no
\* temporary file.
C24_Witness ==
    /\ wpc = "returned"
    /\ wres = "err"
    /\ wjob.ver = 2
    /\ wjob.path = "p1"
    /\ wnext = NChunks + 1
    /\ fs["p1"] = FullContent(1)
    /\ \A t \in TempNames : ~temps[t].exists

(* C25: after a successful ingestion the lines of the bucket files written *)
(* in the run are the transactions of the response, each tagged by the     *)
(* list it came in: a tagged transaction is in one written file only, as   *)
(* many times as the response holds it, and a written file holds no other  *)
(* line.                                                                   *)
C25_Partition ==
    LET booked == sacct.resp.booked
        pending == sacct.resp.pending
        Count(seq, line) == Cardinality({k \in 1..Len(seq) : seq[k] = line})
        Received(line) ==
            Cardinality({i \in 1..Len(booked) : Booked(booked[i]) = line})
            + Cardinality({i \in 1..Len(pending) : Pending(pending[i]) = line})
        lines == {Booked(booked[i]) : i \in 1..Len(booked)}
                    \cup {Pending(pending[i]) : i \in 1..Len(pending)}
        written == {slog[e].what : e \in {k \in 1..Len(slog) :
                       /\ slog[k].kind = "write"
                       /\ slog[k].what[2] \notin {"account-details.json", "balances.jsonl"}}}
    IN
    (spc = "done" /\ sres.result = "ok" /\ sacct.idx # 0) =>
       /\ written \subseteq DOMAIN sfiles
       /\ \A line \in lines :
             /\ Cardinality({path \in written : Count(sfiles[path], line) > 0}) = 1
             /\ \A path \in written :
                   Count(sfiles[path], line) \in {0, Received(line)}
       /\ \A path \in written :
             \A k \in 1..Len(sfiles[path]) : sfiles[path][k] \in lines

\* The same undated transaction received twice in the booked list:
\* undated.json holds both lines, none lost and none merged.
C25_Witness ==
    /\ spc = "done"
    /\ sres.result = "ok"
    /\ sacct.resp.booked = <<NoTx, NoTx>>
    /\ sacct.resp.pending = <<>>
    /\ <<"GB01", "undated.json">> \in DOMAIN sfiles
    /\ sfiles[<<"GB01", "undated.json">>] = <<Booked(NoTx), Booked(NoTx)>>

(* C26: the state file changes only in the step in which a handshake       *)
(* completes, which puts the id of its requisition in place of whatever    *)
(* the file held; no step of a sync run, succeeding or failing, changes    *)
(* it.                                                                     *)
C26_SyncLeavesLinkState ==
    [][linkState' # linkState =>
          /\ spc = "idle"
          /\ cpc = "write_state"
          /\ cpc' = "done"
          /\ cresult' = "ok"
          /\ linkState' = expected_requisition_id]_vars

\* A sync run over two accounts that ended well, and the state file names
\* the requisition it named.
C26_Witness ==
    /\ spc = "done"
    /\ sres.result = "ok"
    /\ sacct.idx = 2
    /\ Len(slog) > 8
    /\ linkState = expected_requisition_id
    /\ cpc = "idle"

(* C27: the timestamp of a transaction is its booking date-time; failing   *)
(* that, the midnight in London of its booking date; failing that, its     *)
(* value date-time; failing that, the midnight in London of its value      *)
(* date; and none exactly when the transaction has none of the four.       *)
(* Midnight in London is midnight UTC in winter, on the day the clocks go  *)
(* forward included, and 23:00 UTC of the day before in summer, on the day *)
(* the clocks go back included.                                            *)
C27_TimestampPriority ==
    LET t == stamp.tx
        Summer(d) == d \in {Date(2024, 4, 1), Date(2024, 10, 27)}
        Midnight(d) == DateTimeUtc(d, 0) - (IF Summer(d) THEN 1 ELSE 0)
        expected ==
            IF t.booking_date_time.some THEN t.booking_date_time
            ELSE IF t.booking_date.some THEN Some(Midnight(t.booking_date.v))
            ELSE IF t.value_date_time.some THEN t.value_date_time
            ELSE IF t.value_date.some THEN Some(Midnight(t.value_date.v))
            ELSE None
    IN
    stamp.pc = "done" =>
       /\ stamp.ts = expected
       /\ ~stamp.ts.some <=> (/\ ~t.booking_date_time.some
                              /\ ~t.booking_date.some
                              /\ ~t.value_date_time.some
                              /\ ~t.value_date.some)

\* A transaction booked on 2024-04-01 whose booking date-time is the
\* midnight UTC of 2024-05-01, with a value date-time and a value date too:
\* the timestamp is the booking date-time.
C27_Witness ==
    /\ stamp.pc = "done"
    /\ stamp.tx.booking_date = Some(Date(2024, 4, 1))
    /\ stamp.tx.booking_date_time = Some(DateTimeUtc(Date(2024, 5, 1), 0))
    /\ stamp.tx.value_date_time.some
    /\ stamp.tx.value_date.some
    /\ stamp.ts = Some(DateTimeUtc(Date(2024, 5, 1), 0))

(* C28: once a callback with the expected id has fetched Linked, the run   *)
(* comes to its end, and if it ends without a failure the state file holds *)
(* the requisition; as long as no callback has fetched Linked the run does *)
(* not get past axum::serve and the state file is not written.             *)
C28_Progress ==
    /\ (chist.cancellers # {}) ~> (cpc = "done")
    /\ []((cpc = "done" /\ cfail = "none") =>
             (cresult = "ok" /\ chist.persisted /\ linkState = expected_requisition_id))
    /\ []((chist.cancellers = {}) =>
             /\ cpc \notin {"refetch", "write_state"}
             /\ cresult # "ok"
             /\ ~chist.persisted)

\* The first callback fetched Created and was shown the page, the second
\* fetched Linked: the run has ended and the state file holds the
\* requisition.
C28_Witness ==
    /\ cpc = "done"
    /\ cresult = "ok"
    /\ chist.persisted
    /\ chist.cancellers = {2}
    /\ reqs[1].got = "Created"
    /\ reqs[1].resp = "200 page"
    /\ linkState = expected_requisition_id

(* C29: the window computed from any current date and any history of one   *)
(* day or more starts no later than it ends.                               *)
C29_StartNotAfterEnd ==
    (win.pc = "computed" /\ history_days(win.history) >= 1) =>
       DayNumber(win.start_date) <= DayNumber(win.end_date)

(* C30: for any three tagged transactions, if the comparator puts the      *)
(* first not after the second and the second not after the third, it puts  *)
(* the first not after the third; and when it tells the three apart pair   *)
(* by pair, sorting them gives the same vector whichever order they came   *)
(* in.                                                                     *)
C30_ComparatorTransitive ==
    order.pc = "done" =>
       /\ (order.ab <= 0 /\ order.bc <= 0) => order.ac <= 0
       /\ (order.ab # 0 /\ order.bc # 0 /\ order.ac # 0) => order.sorted = order.reversed

C32_MonthlyWindows ==
    cal.pc = "done" =>
       LET w == cal.windows
           first == Date(cal.from_date.year, cal.from_date.month, 1)
           to == DayNumber(cal.to_date)
           LastDay(d) == DayNumber(Date(d.year, d.month, DaysInMonth(d.year, d.month)))
       IN
       /\ to < DayNumber(first) => w = <<>>
       /\ to >= DayNumber(first) =>
             /\ Len(w) >= 1
             /\ w[1][1] = first
             /\ w[Len(w)][2] = cal.to_date
       /\ \A k \in 1..Len(w) :
             /\ w[k][1].day = 1
             /\ DayNumber(w[k][2]) = (IF LastDay(w[k][1]) <= to THEN LastDay(w[k][1]) ELSE to)
       /\ \A k \in 1..(Len(w) - 1) :
             /\ DayNumber(w[k + 1][1]) = DayNumber(w[k][2]) + 1
             /\ w[k + 1][1].year * 12 + w[k + 1][1].month
                   = w[k][1].year * 12 + w[k][1].month + 1

\* From 20 January to 10 March 2024: January whole although from_date is
\* its 20th, the leap February whole, March up to to_date.
C32_Witness ==
    /\ cal.pc = "done"
    /\ cal.from_date = Date(2024, 1, 20)
    /\ cal.to_date = Date(2024, 3, 10)
    /\ cal.windows = << <<Date(2024, 1, 1), Date(2024, 1, 31)>>,
                        <<Date(2024, 2, 1), Date(2024, 2, 29)>>,
                        <<Date(2024, 3, 1), Date(2024, 3, 10)>> >>

=============================================================================
